---------------------------- MODULE Spec2Model ----------------------------
(***************************************************************************)
(* A model of the random-toolbox operations: the password, API-key, text   *)
(* and UUID generators, and the Base64 and URL utilities.                   *)
(*                                                                         *)
(* Every operation is a call on an object.  The state is the running      *)
(* call: which operation (op), its arguments (args), the position in it    *)
(* (pc), its local variables (charset, attempt, batch), the number of      *)
(* values it has taken from the random source so far (draws), and what it  *)
(* returned or raised (ret); and the one field an object keeps between     *)
(* calls, the random.Random of the TextGenerator (_rng).                   *)
(*                                                                         *)
(* In the generators a Python str is a sequence of one-character strings.  *)
(* In the Base64 and URL utilities, which work on the UTF-8 bytes of the   *)
(* text, a str is a sequence of code points and bytes are 0..255.          *)
(***************************************************************************)
EXTENDS Integers, Sequences, FiniteSets, TLC

VARIABLES pc, op, args, charset, attempt, batch, draws, ret, _rng

vars == <<pc, op, args, charset, attempt, batch, draws, ret, _rng>>

---------------------------------------------------------------------------
(* Strings *)

Range(s) == {s[i] : i \in DOMAIN s}

\* Python's  c in s  for a one-character c and a str s
InStr(c, s) == \E i \in DOMAIN s : s[i] = c

\* string.ascii_uppercase, string.ascii_lowercase, string.digits
ascii_uppercase ==
    <<"A","B","C","D","E","F","G","H","I","J","K","L","M",
      "N","O","P","Q","R","S","T","U","V","W","X","Y","Z">>

ascii_lowercase ==
    <<"a","b","c","d","e","f","g","h","i","j","k","l","m",
      "n","o","p","q","r","s","t","u","v","w","x","y","z">>

digits == <<"0","1","2","3","4","5","6","7","8","9">>

\* math.log2(n) in millionths of a bit, n in 1..94 (rounded to nearest);
\* math.log2(0) raises ValueError, which the callers model.
Log2Table ==
    <<0, 1000000, 1584963, 2000000, 2321928, 2584963, 2807355, 3000000,
      3169925, 3321928, 3459432, 3584963, 3700440, 3807355, 3906891, 4000000,
      4087463, 4169925, 4247928, 4321928, 4392317, 4459432, 4523562, 4584963,
      4643856, 4700440, 4754888, 4807355, 4857981, 4906891, 4954196, 5000000,
      5044394, 5087463, 5129283, 5169925, 5209453, 5247928, 5285402, 5321928,
      5357552, 5392317, 5426265, 5459432, 5491853, 5523562, 5554589, 5584963,
      5614710, 5643856, 5672425, 5700440, 5727920, 5754888, 5781360, 5807355,
      5832890, 5857981, 5882643, 5906891, 5930737, 5954196, 5977280, 6000000,
      6022368, 6044394, 6066089, 6087463, 6108524, 6129283, 6149747, 6169925,
      6189825, 6209453, 6228819, 6247928, 6266787, 6285402, 6303781, 6321928,
      6339850, 6357552, 6375039, 6392317, 6409391, 6426265, 6442943, 6459432,
      6475733, 6491853, 6507795, 6523562, 6539159, 6554589>>

\* bits are kept in millionths; this is the factor
Micro == 1000000

log2(n) == Log2Table[n]

\* round(x, 2) of a number of bits given in millionths: hundredths of a bit
round2(micro) == (micro + 5000) \div 10000

---------------------------------------------------------------------------
(* The random source *)

\* The width of a random draw: a drawn string or byte string of any length
\* repeats its first DrawWidth positions, which are drawn freely.
DrawWidth == 4

\* The characters the model lets secrets.choice return.
DrawnChars == {"A", "a", "l", "7", "1", "#"}

\* secrets.choice(charset): the outcomes the model draws
secrets_choice(cs) == {c \in Range(cs) : c \in DrawnChars}

\* "".join(secrets.choice(charset) for _ in range(length)): the outcomes
JoinChoices(cs, length) ==
    {[i \in 1..length |-> h[((i - 1) % DrawWidth) + 1]] :
        h \in [1..DrawWidth -> secrets_choice(cs)]}

\* TextGenerator._rng, the random.Random the constructor seeds from
\* secrets.randbits(256): the state of the generator is a function of its
\* seed and of the number of values drawn from it since.  The model keeps
\* whether the state is the one the constructor left, or a later one.
Seeded == "seeded"

\* the state of _rng after n calls of _rng.choice or _rng.randint
advance(rng, n) == IF n > 0 THEN "advanced" ELSE rng

---------------------------------------------------------------------------
(* PasswordGenerator *)

UPPERCASE == ascii_uppercase
LOWERCASE == ascii_lowercase
NUMBERS == digits
SYMBOLS ==
    <<"!","@","#","$","%","^","&","*","(",")","_","+","-",
      "=","[","]","{","}","|",";",":",",",".","<",">","?">>

AMBIGUOUS_CHARS == <<"0","O","1","l","I","|","`","'">>

NotAmbiguous(c) == ~InStr(c, AMBIGUOUS_CHARS)

\* _build_charset that leaves the ambiguous characters in
build_charset_KeepsAmbiguous(uppercase, lowercase, numbers, symbols, exclude_ambiguous) ==
    (IF uppercase THEN UPPERCASE ELSE <<>>)
    \o (IF lowercase THEN LOWERCASE ELSE <<>>)
    \o (IF numbers THEN NUMBERS ELSE <<>>)
    \o (IF symbols THEN SYMBOLS ELSE <<>>)

\* _build_charset up to its raise: the caller raises on the empty charset
build_charset(uppercase, lowercase, numbers, symbols, exclude_ambiguous) ==
    LET cs == (IF uppercase THEN UPPERCASE ELSE <<>>)
              \o (IF lowercase THEN LOWERCASE ELSE <<>>)
              \o (IF numbers THEN NUMBERS ELSE <<>>)
              \o (IF symbols THEN SYMBOLS ELSE <<>>)
    IN  IF exclude_ambiguous THEN SelectSeq(cs, NotAmbiguous) ELSE cs

\* _calculate_entropy, in millionths of a bit
calculate_entropy(length, charset_size) == length * log2(charset_size)

\* _ensure_requirements that forgets the symbols
ensure_requirements_NoSymbols(password, cfg) ==
    /\ cfg.uppercase => \E i \in DOMAIN password : InStr(password[i], UPPERCASE)
    /\ cfg.lowercase => \E i \in DOMAIN password : InStr(password[i], LOWERCASE)
    /\ cfg.numbers => \E i \in DOMAIN password : InStr(password[i], NUMBERS)

\* _ensure_requirements(password, charset_config)
ensure_requirements(password, cfg) ==
    /\ cfg.uppercase => \E i \in DOMAIN password : InStr(password[i], UPPERCASE)
    /\ cfg.lowercase => \E i \in DOMAIN password : InStr(password[i], LOWERCASE)
    /\ cfg.numbers => \E i \in DOMAIN password : InStr(password[i], NUMBERS)
    /\ cfg.symbols => \E i \in DOMAIN password : InStr(password[i], SYMBOLS)

\* _assess_strength(entropy), entropy in millionths of a bit
assess_strength(entropy) ==
    IF entropy >= 100 * Micro THEN "very_strong"
    ELSE IF entropy >= 80 * Micro THEN "strong"
    ELSE IF entropy >= 60 * Micro THEN "moderate"
    ELSE IF entropy >= 40 * Micro THEN "weak"
    ELSE "very_weak"

MinPasswordLength == 8
MaxPasswordLength == 128
max_attempts == 100
MaxPasswordCount == 100

\* the record generate_password returns
PasswordResult(password, a, cs) ==
    [password |-> password,
     length |-> a.length,
     entropy_bits |-> round2(calculate_entropy(a.length, Len(cs))),
     charset_size |-> Len(cs),
     strength |-> assess_strength(calculate_entropy(a.length, Len(cs))),
     config |-> [uppercase |-> a.uppercase, lowercase |-> a.lowercase,
                 numbers |-> a.numbers, symbols |-> a.symbols,
                 exclude_ambiguous |-> a.exclude_ambiguous]]

Ok(v) == [status |-> "ok", value |-> v]
Raise(kind, msg) == [status |-> "error", kind |-> kind, message |-> msg]
NoRet == [status |-> "none"]

\* the arguments the model calls generate_password with: every combination
\* of the flags at the lengths around the lower limit and above the upper
\* one, and upper case and digits without the ambiguous ones at the upper limit
PasswordLengths ==
    {MinPasswordLength - 1, MinPasswordLength, MaxPasswordLength + 1}

PasswordArgs ==
    [length : PasswordLengths, uppercase : BOOLEAN, lowercase : BOOLEAN,
     numbers : BOOLEAN, symbols : BOOLEAN, exclude_ambiguous : BOOLEAN,
     ensure_requirements : BOOLEAN]
    \cup
    [length : {MaxPasswordLength}, uppercase : {TRUE}, lowercase : {FALSE},
     numbers : {TRUE}, symbols : {FALSE}, exclude_ambiguous : {TRUE},
     ensure_requirements : {TRUE}]

\* the keyword arguments the model passes through generate_multiple: one
\* class only (no attempt can fail), a length out of range, no class at all
PasswordKwargs ==
    {[length |-> MinPasswordLength, uppercase |-> FALSE, lowercase |-> FALSE,
      numbers |-> TRUE, symbols |-> FALSE, exclude_ambiguous |-> FALSE,
      ensure_requirements |-> TRUE],
     [length |-> MinPasswordLength - 1, uppercase |-> FALSE, lowercase |-> FALSE,
      numbers |-> TRUE, symbols |-> FALSE, exclude_ambiguous |-> FALSE,
      ensure_requirements |-> TRUE],
     [length |-> MinPasswordLength, uppercase |-> FALSE, lowercase |-> FALSE,
      numbers |-> FALSE, symbols |-> FALSE, exclude_ambiguous |-> FALSE,
      ensure_requirements |-> TRUE]}

PasswordCounts == {0, 1, 2, MaxPasswordCount + 1}

\* what generate_password raises before its loop, or NoRet
PasswordRejects(a) ==
    IF a.length < MinPasswordLength \/ a.length > MaxPasswordLength
    THEN Raise("ValueError", "Password length must be between 8 and 128 characters")
    ELSE IF build_charset(a.uppercase, a.lowercase, a.numbers, a.symbols,
                          a.exclude_ambiguous) = <<>>
    THEN Raise("ValueError", "At least one character type must be enabled")
    ELSE NoRet

\* the keyword arguments of the running generate_password
PasswordKw == IF op = "generate_multiple_passwords" THEN args.kwargs ELSE args

\* generate_password entered with arguments a: up to the head of its loop
EnterPassword(a) ==
    /\ attempt' = 0
    /\ draws' = 0
    /\ batch' = <<>>
    /\ IF PasswordRejects(a).status = "error"
       THEN /\ ret' = PasswordRejects(a)
            /\ charset' = <<>>
            /\ UNCHANGED _rng
            /\ pc' = "done"
       ELSE /\ ret' = NoRet
            /\ charset' = build_charset(a.uppercase, a.lowercase, a.numbers,
                                        a.symbols, a.exclude_ambiguous)
            /\ UNCHANGED _rng
            /\ pc' = "password_loop"

\* generate_password, from the call to the head of its loop
GeneratePassword ==
    /\ pc = "idle"
    /\ \E a \in PasswordArgs :
        /\ op' = "generate_password"
        /\ args' = a
        /\ EnterPassword(a)

\* PasswordGenerator.generate_multiple, from the call to the head of the
\* loop of its first generate_password
GenerateMultiplePasswords ==
    /\ pc = "idle"
    /\ \E count \in PasswordCounts, kw \in PasswordKwargs :
        /\ op' = "generate_multiple_passwords"
        /\ args' = [count |-> count, kwargs |-> kw]
        /\ IF count <= 0 \/ count > MaxPasswordCount
           THEN /\ ret' = Raise("ValueError", "Count must be between 1 and 100")
                /\ pc' = "done"
                /\ attempt' = 0
                /\ draws' = 0
                /\ batch' = <<>>
                /\ charset' = <<>>
                /\ UNCHANGED _rng
           ELSE EnterPassword(kw)

\* a loop that runs once more than range(max_attempts)
InRange_OneMore == attempt <= max_attempts

\* for attempt in range(max_attempts): whether an iteration is left
InRange == attempt < max_attempts

\* one iteration of  for attempt in range(max_attempts): the attempt is
\* returned, or dropped.  Under generate_multiple a returned password joins
\* the list and the next generate_password starts.
PasswordAttempt ==
    /\ pc = "password_loop"
    /\ InRange
    /\ \E password \in JoinChoices(charset, PasswordKw.length) :
        LET result == PasswordResult(password, PasswordKw, charset) IN
        /\ draws' = draws + PasswordKw.length
        /\ IF ~PasswordKw.ensure_requirements
              \/ ensure_requirements(password, PasswordKw)
           THEN IF op = "generate_password"
                THEN /\ ret' = Ok(result)
                     /\ pc' = "done"
                     /\ UNCHANGED <<attempt, batch>>
                ELSE IF Len(batch) + 1 = args.count
                THEN /\ ret' = Ok(Append(batch, result))
                     /\ batch' = Append(batch, result)
                     /\ pc' = "done"
                     /\ UNCHANGED attempt
                ELSE /\ batch' = Append(batch, result)
                     /\ attempt' = 0
                     /\ UNCHANGED <<ret, pc>>
           ELSE /\ attempt' = attempt + 1
                /\ UNCHANGED <<ret, pc, batch>>
    /\ UNCHANGED <<op, args, charset, _rng>>

\* the loop ran out:  raise RuntimeError
PasswordExhausted ==
    /\ pc = "password_loop"
    /\ ~InRange
    /\ ret' = Raise("RuntimeError",
                    "Failed to generate password meeting requirements after 100 attempts")
    /\ pc' = "done"
    /\ UNCHANGED <<op, args, charset, _rng, attempt, batch, draws>>

---------------------------------------------------------------------------
(* APIKeyGenerator *)

\* the byte values the model lets the random source return
DrawnBytes == {0, 57, 255}

\* secrets.token_bytes(n): the outcomes the model draws
token_bytes(n) ==
    {[i \in 1..n |-> h[((i - 1) % DrawWidth) + 1]] :
        h \in [1..DrawWidth -> DrawnBytes]}

HexDigits ==
    <<"0","1","2","3","4","5","6","7","8","9","a","b","c","d","e","f">>

\* bytes.hex(), as secrets.token_hex applies it to the drawn bytes
hex(bytes) ==
    [i \in 1..(2 * Len(bytes)) |->
        IF i % 2 = 1 THEN HexDigits[(bytes[(i + 1) \div 2] \div 16) + 1]
        ELSE HexDigits[(bytes[i \div 2] % 16) + 1]]

\* The 6-bit groups of base64.b64encode(bytes), 64 standing for the padding
\* character '=': three bytes give four groups, a last group of one byte
\* gives two and '==', of two bytes three and '='.
b64_sextets(bytes) ==
    LET n == Len(bytes)
        At(k) == IF k <= n THEN bytes[k] ELSE 0
        Sextet(i) ==
            LET g == (i - 1) \div 4
                j == (i - 1) % 4
                b0 == At(3 * g + 1)
                b1 == At(3 * g + 2)
                b2 == At(3 * g + 3)
            IN  CASE j = 0 -> b0 \div 4
                  [] j = 1 -> (b0 % 4) * 16 + (b1 \div 16)
                  [] j = 2 -> IF 3 * g + 2 > n THEN 64
                              ELSE (b1 % 16) * 4 + (b2 \div 64)
                  [] j = 3 -> IF 3 * g + 3 > n THEN 64 ELSE b2 % 64
    IN  [i \in 1..(4 * ((n + 2) \div 3)) |-> Sextet(i)]

\* the URL-safe Base64 alphabet, with '=' in place 65
urlsafe_alphabet ==
    ascii_uppercase \o ascii_lowercase \o digits \o <<"-", "_", "=">>

\* token_urlsafe that keeps the padding
urlsafe_Padded(bytes) ==
    [i \in 1..Len(b64_sextets(bytes)) |->
        urlsafe_alphabet[b64_sextets(bytes)[i] + 1]]

\* secrets.token_urlsafe on the drawn bytes:
\* base64.urlsafe_b64encode(tok).rstrip(b'=').decode('ascii')
urlsafe(bytes) ==
    LET sx == SelectSeq(b64_sextets(bytes), LAMBDA x : x # 64)
    IN  [i \in 1..Len(sx) |-> urlsafe_alphabet[sx[i] + 1]]

base58_alphabet ==
    <<"1","2","3","4","5","6","7","8","9",
      "A","B","C","D","E","F","G","H","J","K","L","M","N","P","Q","R","S","T",
      "U","V","W","X","Y","Z",
      "a","b","c","d","e","f","g","h","i","j","k","m","n","o","p","q","r","s",
      "t","u","v","w","x","y","z">>

Base == 58

\* An int of any size is kept as its big-endian base-256 digits without
\* leading zeros; int.from_bytes(random_bytes, 'big') drops them.
RECURSIVE lstrip0(_)
lstrip0(bytes) ==
    IF bytes # <<>> /\ bytes[1] = 0 THEN lstrip0(Tail(bytes)) ELSE bytes

\* divmod(num, 58) by long division: [q |-> the quotient, r |-> the remainder]
RECURSIVE LongDiv(_, _, _, _)
LongDiv(num, i, r, q) ==
    IF i > Len(num) THEN [q |-> lstrip0(q), r |-> r]
    ELSE LongDiv(num, i + 1, (r * 256 + num[i]) % Base,
                 Append(q, (r * 256 + num[i]) \div Base))

divmod58(num) == LongDiv(num, 1, 0, <<>>)

\* while num > 0: num, remainder = divmod(num, 58);
\*                encoded = base58_alphabet[remainder] + encoded
RECURSIVE base58_digits(_, _)
base58_digits(num, encoded) ==
    IF num = <<>> THEN encoded
    ELSE base58_digits(divmod58(num).q,
                       <<base58_alphabet[divmod58(num).r + 1]>> \o encoded)

\* generate_base58 without the '1' of the leading zero bytes
base58_DropsLeadingZeros(random_bytes) ==
    base58_digits(lstrip0(random_bytes), <<>>)

\* generate_base58 on the drawn bytes
base58(random_bytes) ==
    LET leading_zeros == Len(random_bytes) - Len(lstrip0(random_bytes))
    IN  [i \in 1..leading_zeros |-> "1"]
        \o base58_digits(lstrip0(random_bytes), <<>>)

MaxKeyBytes == 128
MaxCustomLength == 256
MinCharsetLength == 2
MaxPrefixLength == 20
MaxApiKeyCount == 50

\* an optional str argument: None, or a str
None == [isNone |-> TRUE, str |-> <<>>]
Some(str) == [isNone |-> FALSE, str |-> str]

\* generate_hex, generate_base64, generate_base58, generate_custom: the
\* outcomes, each a raise or a key, with the number of values drawn for it
LengthError ==
    [status |-> "error", kind |-> "ValueError",
     message |-> "Length must be between 1 and 128 bytes", draws |-> 0]

\* generate_hex that rejects a token whose first byte is zero
generate_hex_RejectsZeroByte(length) ==
    IF length <= 0 \/ length > MaxKeyBytes THEN {LengthError}
    ELSE {IF b[1] = 0
          THEN [status |-> "error", kind |-> "ValueError",
                message |-> "Weak key", draws |-> length]
          ELSE [status |-> "ok", key |-> hex(b), draws |-> length] :
            b \in token_bytes(length)}

generate_hex(length) ==
    IF length <= 0 \/ length > MaxKeyBytes THEN {LengthError}
    ELSE {[status |-> "ok", key |-> hex(b), draws |-> length] :
            b \in token_bytes(length)}

generate_base64(length) ==
    IF length <= 0 \/ length > MaxKeyBytes THEN {LengthError}
    ELSE {[status |-> "ok", key |-> urlsafe(b), draws |-> length] :
            b \in token_bytes(length)}

generate_base58(length) ==
    IF length <= 0 \/ length > MaxKeyBytes THEN {LengthError}
    ELSE {[status |-> "ok", key |-> base58(b), draws |-> length] :
            b \in token_bytes(length)}

\* generate_custom that draws the key before it checks its arguments
generate_custom_DrawsFirst(length, cs) ==
    LET chars == IF cs.isNone THEN ascii_lowercase \o ascii_uppercase \o digits
                 ELSE cs.str
    IN  IF length <= 0 \/ length > MaxCustomLength
        THEN {[status |-> "error", kind |-> "ValueError",
               message |-> "Length must be between 1 and 256 characters",
               draws |-> length]}
        ELSE IF Len(chars) < MinCharsetLength
        THEN {[status |-> "error", kind |-> "ValueError",
               message |-> "Charset must contain at least 2 characters",
               draws |-> length]}
        ELSE {[status |-> "ok", key |-> k, draws |-> length] :
                k \in JoinChoices(chars, length)}

generate_custom(length, cs) ==
    LET chars == IF cs.isNone THEN ascii_lowercase \o ascii_uppercase \o digits
                 ELSE cs.str
    IN  IF length <= 0 \/ length > MaxCustomLength
        THEN {[status |-> "error", kind |-> "ValueError",
               message |-> "Length must be between 1 and 256 characters",
               draws |-> 0]}
        ELSE IF Len(chars) < MinCharsetLength
        THEN {[status |-> "error", kind |-> "ValueError",
               message |-> "Charset must contain at least 2 characters",
               draws |-> 0]}
        ELSE {[status |-> "ok", key |-> k, draws |-> length] :
                k \in JoinChoices(chars, length)}

KeyFormats == {"hex", "base64", "base58", "custom"}

\* _assess_security with > for >=
assess_security_Strict(entropy_bits) ==
    IF entropy_bits > 256 * Micro THEN "military_grade"
    ELSE IF entropy_bits > 128 * Micro THEN "very_strong"
    ELSE IF entropy_bits > 80 * Micro THEN "strong"
    ELSE IF entropy_bits > 64 * Micro THEN "adequate"
    ELSE "weak"

\* _assess_security(entropy_bits), entropy in millionths of a bit
assess_security(entropy_bits) ==
    IF entropy_bits >= 256 * Micro THEN "military_grade"
    ELSE IF entropy_bits >= 128 * Micro THEN "very_strong"
    ELSE IF entropy_bits >= 80 * Micro THEN "strong"
    ELSE IF entropy_bits >= 64 * Micro THEN "adequate"
    ELSE "weak"

\* the entropy generate computes, in millionths of a bit; -1 where
\* math.log2 raises: len(charset or "") is 0 when charset is None
key_entropy(a) ==
    CASE a.key_format = "hex" -> a.length * 4 * Micro
      [] a.key_format = "base64" -> a.length * 6 * Micro
      [] a.key_format = "base58" -> a.length * log2(Base)
      [] OTHER -> IF Len(a.charset.str) = 0 THEN -1
                  ELSE a.length * log2(Len(a.charset.str))

\* APIKeyGenerator.generate(key_format, length, prefix, charset): the
\* outcomes, [ret |-> what it returns or raises, draws |-> the values drawn]
generate(a) ==
    IF a.prefix # <<>> /\ Len(a.prefix) > MaxPrefixLength
    THEN {[ret |-> Raise("ValueError", "Prefix cannot exceed 20 characters"),
           draws |-> 0]}
    ELSE IF a.key_format \notin KeyFormats
    THEN {[ret |-> Raise("ValueError", "Invalid format"), draws |-> 0]}
    ELSE LET body == CASE a.key_format = "hex" -> generate_hex(a.length)
                       [] a.key_format = "base64" -> generate_base64(a.length)
                       [] a.key_format = "base58" -> generate_base58(a.length)
                       [] OTHER -> generate_custom(a.length, a.charset)
         IN  {IF b.status = "error"
              THEN [ret |-> Raise(b.kind, b.message), draws |-> b.draws]
              ELSE IF key_entropy(a) < 0
              THEN [ret |-> Raise("ValueError", "math domain error"),
                    draws |-> b.draws]
              ELSE [ret |-> Ok([api_key |-> a.prefix \o b.key,
                                format |-> a.key_format,
                                length |-> Len(b.key),
                                total_length |-> Len(a.prefix \o b.key),
                                prefix |-> a.prefix,
                                entropy_bits |-> round2(key_entropy(a)),
                                security_level |->
                                    assess_security(key_entropy(a))]),
                    draws |-> b.draws]
              : b \in body}

\* the arguments the model calls generate with
Prefixes ==
    {<<>>, <<"s", "k", "_">>, [i \in 1..MaxPrefixLength |-> "l"],
     [i \in 1..(MaxPrefixLength + 1) |-> "l"]}

Charsets ==
    {None, Some(<<>>), Some(<<"A">>), Some(<<"A", "A">>), Some(<<"A", "7">>),
     Some(<<"A", "7", "#">>)}

\* the lengths of a hex or base64 key: every length in range and the first
\* out of range on either side
ByteLengths == 0..(MaxKeyBytes + 1)
\* the lengths taken with every prefix and with a format that is none
EdgeLengths == {0, 1, 16, 24, MaxKeyBytes, MaxKeyBytes + 1}
Base58Lengths == {0, 1, 2, 3, 24, MaxKeyBytes + 1}
CustomLengths == {0, 1, 2, MaxCustomLength, MaxCustomLength + 1}

ApiKeyArgs ==
    [key_format : {"hex", "base64"}, length : ByteLengths,
     prefix : {<<>>, <<"s", "k", "_">>}, charset : {None}]
    \cup
    [key_format : {"hex", "base64", "rsa"}, length : EdgeLengths,
     prefix : Prefixes, charset : {None}]
    \cup
    [key_format : {"base58"}, length : Base58Lengths,
     prefix : Prefixes, charset : {None}]
    \cup
    [key_format : {"custom"}, length : CustomLengths,
     prefix : {<<>>, <<"s", "k", "_">>}, charset : Charsets]

\* APIKeyGenerator.generate
GenerateApiKey ==
    /\ pc = "idle"
    /\ \E a \in ApiKeyArgs : \E out \in generate(a) :
        /\ op' = "generate_api_key"
        /\ args' = a
        /\ ret' = out.ret
        /\ draws' = out.draws
    /\ pc' = "done"
    /\ UNCHANGED <<charset, _rng, attempt, batch>>

\* the keyword arguments the model passes through generate_multiple
ApiKeyKwargs ==
    {[key_format |-> "custom", length |-> 2, prefix |-> <<>>,
      charset |-> Some(<<"A", "7">>)],
     [key_format |-> "hex", length |-> 0, prefix |-> <<>>, charset |-> None],
     [key_format |-> "rsa", length |-> 2, prefix |-> <<>>, charset |-> None]}

ApiKeyCounts == {0, 1, 2, MaxApiKeyCount + 1}

\* APIKeyGenerator.generate_multiple, from the call to its first generate
GenerateMultipleApiKeys ==
    /\ pc = "idle"
    /\ \E count \in ApiKeyCounts, kw \in ApiKeyKwargs :
        /\ op' = "generate_multiple_api_keys"
        /\ args' = [count |-> count, kwargs |-> kw]
        /\ IF count <= 0 \/ count > MaxApiKeyCount
           THEN /\ ret' = Raise("ValueError", "Count must be between 1 and 50")
                /\ pc' = "done"
           ELSE /\ ret' = NoRet
                /\ pc' = "api_key_loop"
    /\ draws' = 0
    /\ batch' = <<>>
    /\ UNCHANGED <<charset, _rng, attempt>>

\* one generate of  [self.generate(**kwargs) for _ in range(count)]
ApiKeyStep ==
    /\ pc = "api_key_loop"
    /\ \E out \in generate(args.kwargs) :
        /\ draws' = draws + out.draws
        /\ IF out.ret.status = "error"
           THEN /\ ret' = out.ret
                /\ pc' = "done"
                /\ UNCHANGED batch
           ELSE /\ batch' = Append(batch, out.ret.value)
                /\ IF Len(batch) + 1 = args.count
                   THEN /\ ret' = Ok(Append(batch, out.ret.value))
                        /\ pc' = "done"
                   ELSE UNCHANGED <<ret, pc>>
    /\ UNCHANGED <<op, args, charset, _rng, attempt>>

---------------------------------------------------------------------------
(* TextGenerator *)

LOREM_WORDS ==
    <<<<"l","o","r","e","m">>, <<"i","p","s","u","m">>,
      <<"d","o","l","o","r">>, <<"s","i","t">>, <<"a","m","e","t">>,
      <<"c","o","n","s","e","c","t","e","t","u","r">>,
      <<"a","d","i","p","i","s","c","i","n","g">>, <<"e","l","i","t">>,
      <<"s","e","d">>, <<"d","o">>, <<"e","i","u","s","m","o","d">>,
      <<"t","e","m","p","o","r">>,
      <<"i","n","c","i","d","i","d","u","n","t">>, <<"u","t">>,
      <<"l","a","b","o","r","e">>, <<"e","t">>, <<"d","o","l","o","r","e">>,
      <<"m","a","g","n","a">>, <<"a","l","i","q","u","a">>,
      <<"e","n","i","m">>, <<"a","d">>, <<"m","i","n","i","m">>,
      <<"v","e","n","i","a","m">>, <<"q","u","i","s">>,
      <<"n","o","s","t","r","u","d">>,
      <<"e","x","e","r","c","i","t","a","t","i","o","n">>,
      <<"u","l","l","a","m","c","o">>, <<"l","a","b","o","r","i","s">>,
      <<"n","i","s","i">>, <<"a","l","i","q","u","i","p">>, <<"e","x">>,
      <<"e","a">>, <<"c","o","m","m","o","d","o">>,
      <<"c","o","n","s","e","q","u","a","t">>, <<"d","u","i","s">>,
      <<"a","u","t","e">>, <<"i","r","u","r","e">>, <<"i","n">>,
      <<"r","e","p","r","e","h","e","n","d","e","r","i","t">>,
      <<"v","o","l","u","p","t","a","t","e">>, <<"v","e","l","i","t">>,
      <<"e","s","s","e">>, <<"c","i","l","l","u","m">>,
      <<"f","u","g","i","a","t">>, <<"n","u","l","l","a">>,
      <<"p","a","r","i","a","t","u","r">>,
      <<"e","x","c","e","p","t","e","u","r">>, <<"s","i","n","t">>,
      <<"o","c","c","a","e","c","a","t">>,
      <<"c","u","p","i","d","a","t","a","t">>, <<"n","o","n">>,
      <<"p","r","o","i","d","e","n","t">>, <<"s","u","n","t">>,
      <<"c","u","l","p","a">>, <<"q","u","i">>,
      <<"o","f","f","i","c","i","a">>, <<"d","e","s","e","r","u","n","t">>,
      <<"m","o","l","l","i","t">>, <<"a","n","i","m">>, <<"i","d">>,
      <<"e","s","t">>, <<"l","a","b","o","r","u","m">>>>

\* the places of LOREM_WORDS the model lets self._rng.choice return
DrawnWords == {1, 4}

\* What self._rng returns during one call: the words it chooses and the
\* numbers it draws, each repeating after DrawWidth draws.  The model lets
\* self._rng.randint(lo, hi) return lo (FALSE on the tape) or hi (TRUE).
WordTapes == [1..DrawWidth -> DrawnWords]
IntTapes == [1..DrawWidth -> BOOLEAN]

TapeAt(tape, i) == tape[((i - 1) % DrawWidth) + 1]

\* str.upper, str.lower and str.capitalize, one character at a time
UpperChars == Range(ascii_uppercase)
LowerChars == Range(ascii_lowercase)
IndexOf(c, s) == CHOOSE i \in DOMAIN s : s[i] = c
upper_char(c) ==
    IF c \in LowerChars THEN ascii_uppercase[IndexOf(c, ascii_lowercase)] ELSE c
lower_char(c) ==
    IF c \in UpperChars THEN ascii_lowercase[IndexOf(c, ascii_uppercase)] ELSE c
upper(s) == [i \in DOMAIN s |-> upper_char(s[i])]
lower(s) == [i \in DOMAIN s |-> lower_char(s[i])]
capitalize(s) ==
    [i \in DOMAIN s |-> IF i = 1 THEN upper_char(s[i]) ELSE lower_char(s[i])]

\* sep.join(parts)
RECURSIVE join(_, _)
join(sep, parts) ==
    IF parts = <<>> THEN <<>>
    ELSE IF Len(parts) = 1 THEN parts[1]
    ELSE parts[1] \o sep \o join(sep, Tail(parts))

MaxWords == 1000
MaxSentences == 100
MaxParagraphs == 50
MinSentenceWords == 8
MaxSentenceWords == 15
MinParagraphSentences == 4
MaxParagraphSentences == 8

\* generate_words(count) with count in range: the j-th call of a run
\* chooses its words from place j of the tape on
generate_words(words, j, count) ==
    [i \in 1..count |-> LOREM_WORDS[TapeAt(words, j + i - 1)]]

\* generate_sentence() with word_count None: the j-th sentence of a run
sentence_words(ints, j) ==
    IF TapeAt(ints, j) THEN MaxSentenceWords ELSE MinSentenceWords

generate_sentence(words, ints, j) ==
    capitalize(join(<<" ">>, generate_words(words, j, sentence_words(ints, j))))
    \o <<".">>

\* generate_sentences(count) with count in range, from sentence j on
generate_sentences(words, ints, j, count) ==
    [i \in 1..count |-> generate_sentence(words, ints, j + i - 1)]

\* generate_paragraph() with sentence_count None: the p-th paragraph
paragraph_sentences(ints, p) ==
    IF TapeAt(ints, p) THEN MaxParagraphSentences ELSE MinParagraphSentences

generate_paragraph(words, ints, p) ==
    join(<<" ">>, generate_sentences(words, ints, p, paragraph_sentences(ints, p)))

generate_paragraphs(words, ints, count) ==
    [p \in 1..count |-> generate_paragraph(words, ints, p)]

\* the values drawn from self._rng: one for each word, one for each randint
RECURSIVE Sum(_, _)
Sum(f, n) == IF n = 0 THEN 0 ELSE f[n] + Sum(f, n - 1)

sentences_draws(ints, j, count) ==
    Sum([i \in 1..count |-> 1 + sentence_words(ints, j + i - 1)], count)

paragraphs_draws(ints, count) ==
    Sum([p \in 1..count |->
            1 + sentences_draws(ints, p, paragraph_sentences(ints, p))], count)

\* TextGenerator.generate(content_type, count) on the tapes words, ints:
\* [ret |-> what it returns or raises, draws |-> the values drawn]
generate_text(content_type, count, words, ints) ==
    LET one(result) == IF count > 1 THEN [is_list |-> TRUE, items |-> result]
                       ELSE [is_list |-> FALSE, items |-> <<result[1]>>]
    IN  CASE content_type = "word" ->
               IF count <= 0
               THEN [ret |-> Raise("ValueError", "Count must be positive"),
                     draws |-> 0]
               ELSE IF count > MaxWords
               THEN [ret |-> Raise("ValueError", "Count cannot exceed 1000"),
                     draws |-> 0]
               ELSE [ret |-> Ok(one(generate_words(words, 1, count))),
                     draws |-> count]
          [] content_type = "sentence" ->
               IF count <= 0
               THEN [ret |-> Raise("ValueError", "Count must be positive"),
                     draws |-> 0]
               ELSE IF count > MaxSentences
               THEN [ret |-> Raise("ValueError", "Count cannot exceed 100"),
                     draws |-> 0]
               ELSE [ret |-> Ok(one(generate_sentences(words, ints, 1, count))),
                     draws |-> sentences_draws(ints, 1, count)]
          [] content_type = "paragraph" ->
               IF count <= 0
               THEN [ret |-> Raise("ValueError", "Count must be positive"),
                     draws |-> 0]
               ELSE IF count > MaxParagraphs
               THEN [ret |-> Raise("ValueError", "Count cannot exceed 50"),
                     draws |-> 0]
               ELSE [ret |-> Ok(one(generate_paragraphs(words, ints, count))),
                     draws |-> paragraphs_draws(ints, count)]
          [] OTHER -> [ret |-> Raise("ValueError", "Invalid content_type"),
                       draws |-> 0]

\* the arguments the model calls TextGenerator.generate with
TextArgs ==
    [content_type : {"word"}, count : {0, 1, 2, MaxWords, MaxWords + 1}]
    \cup [content_type : {"sentence"}, count : {0, 1, 2, MaxSentences + 1}]
    \cup [content_type : {"paragraph"}, count : {0, 1, 2, MaxParagraphs + 1}]
    \cup [content_type : {"essay"}, count : {0, 1, 2}]

\* TextGenerator.generate
GenerateText ==
    /\ pc = "idle"
    /\ \E a \in TextArgs, words \in WordTapes, ints \in IntTapes :
        LET out == generate_text(a.content_type, a.count, words, ints) IN
        /\ op' = "generate_text"
        /\ args' = a
        /\ ret' = out.ret
        /\ draws' = out.draws
        /\ _rng' = advance(_rng, out.draws)
    /\ pc' = "done"
    /\ UNCHANGED <<charset, attempt, batch>>

---------------------------------------------------------------------------
(* UUIDGenerator *)

Whitespace == {" ", "\t", "\n"}

\* str.strip()
RECURSIVE lstrip(_)
lstrip(s) == IF s # <<>> /\ s[1] \in Whitespace THEN lstrip(Tail(s)) ELSE s
RECURSIVE rstrip(_)
rstrip(s) ==
    IF s # <<>> /\ s[Len(s)] \in Whitespace
    THEN rstrip(SubSeq(s, 1, Len(s) - 1)) ELSE s
strip(s) == rstrip(lstrip(s))

UuidBytes == 16
MaxUuidCount == 100

\* uuid.UUID(..., version=v) setting the variant but not the version
set_version_VariantOnly(bytes, v) ==
    [i \in DOMAIN bytes |->
        IF i = 9 THEN (bytes[i] % 64) + 128 ELSE bytes[i]]

\* uuid.UUID(..., version=v): the version in the high half of byte 7 and
\* the RFC 4122 variant in the two high bits of byte 9
set_version(bytes, v) ==
    [i \in DOMAIN bytes |->
        IF i = 7 THEN (bytes[i] % 16) + 16 * v
        ELSE IF i = 9 THEN (bytes[i] % 64) + 128
        ELSE bytes[i]]

\* uuid.uuid1() and uuid.uuid4(): the outcomes the model draws.  The time,
\* clock sequence and node of uuid1 are drawn like the bytes of uuid4.
uuid1 == {set_version(b, 1) : b \in token_bytes(UuidBytes)}
uuid4 == {set_version(b, 4) : b \in token_bytes(UuidBytes)}

\* str(uuid_obj): 8-4-4-4-12
uuid_str(u) ==
    LET h == hex(u)
    IN  SubSeq(h, 1, 8) \o <<"-">> \o SubSeq(h, 9, 12) \o <<"-">>
        \o SubSeq(h, 13, 16) \o <<"-">> \o SubSeq(h, 17, 20) \o <<"-">>
        \o SubSeq(h, 21, 32)

\* _parse_uuid_components: str(uuid_obj).split('-') taken apart
parse_uuid_components(u) ==
    LET str == uuid_str(u)
    IN  [time_low |-> SubSeq(str, 1, 8),
         time_mid |-> SubSeq(str, 10, 13),
         time_hi_and_version |-> SubSeq(str, 15, 18),
         clock_seq_hi_and_reserved |-> SubSeq(str, 20, 21),
         clock_seq_low |-> SubSeq(str, 22, 23),
         node |-> SubSeq(str, 25, 36)]

\* _get_uuid_variant: uuid_obj.variant reads the high bits of byte 9
get_uuid_variant(u) ==
    IF u[9] < 128 THEN "Reserved for NCS compatibility"
    ELSE IF u[9] < 192 THEN "RFC 4122 variant"
    ELSE IF u[9] < 224 THEN "Reserved for Microsoft compatibility"
    ELSE "Reserved for future definition"

\* _get_version_description(version)
get_version_description(version) ==
    CASE lower(version) = <<"v", "1">> ->
            [type |-> "Time-based UUID",
             description |-> "Based on timestamp and MAC address"]
      [] lower(version) = <<"v", "4">> ->
            [type |-> "Random UUID",
             description |-> "Cryptographically random UUID"]
      [] OTHER -> [type |-> "Unknown", description |-> "Unknown UUID version"]

\* the version token of generate_uuid, normalized: "v1", "v4", or <<>> for
\* a token that is not supported
normalize_version(token) ==
    LET version == strip(lower(token))
    IN  IF version \in {<<"1">>, <<"v", "1">>} THEN <<"v", "1">>
        ELSE IF version \in {<<"4">>, <<"v", "4">>} THEN <<"v", "4">>
        ELSE <<>>

\* the record generate_uuid returns for the generated value u; an int field
\* is kept as its big-endian bytes, and the time of the call is left out
UuidResult(version, u) ==
    LET v1 == version = <<"v", "1">>
        field(from, to) == IF v1 THEN Some(SubSeq(u, from, to)) ELSE None
    IN  [uuid |-> uuid_str(u),
         version |-> upper(version),
         type |-> IF v1 THEN "Time-based UUID" ELSE "Random UUID",
         description |-> IF v1 THEN "Based on timestamp and MAC address"
                         ELSE "Cryptographically random UUID",
         format |-> "8-4-4-4-12 hexadecimal digits",
         length |-> Len(uuid_str(u)),
         components |-> parse_uuid_components(u),
         metadata |->
            [variant |-> get_uuid_variant(u),
             is_nil |-> \A i \in DOMAIN u : u[i] = 0,
             hex |-> hex(u),
             bytes |-> Len(u),
             fields |-> [time_low |-> field(1, 4),
                         time_mid |-> field(5, 6),
                         time_hi_version |-> field(7, 8),
                         clock_seq_hi_variant |-> field(9, 9),
                         clock_seq_low |-> field(10, 10),
                         node |-> field(11, 16)]]]

\* generate_uuid(version): the outcomes
generate_uuid(token) ==
    IF normalize_version(token) = <<>>
    THEN {[ret |-> Raise("ValueError", "Unsupported UUID version"), draws |-> 0]}
    ELSE {[ret |-> Ok(UuidResult(normalize_version(token), u)),
           draws |-> UuidBytes] :
            u \in IF normalize_version(token) = <<"v", "1">> THEN uuid1 ELSE uuid4}

\* the version tokens the model calls generate_uuid with
VersionTokens ==
    {<<"v", "4">>, <<"V", "4">>, <<"4">>, <<"v", "1">>, <<"1">>,
     <<" ", "v", "1", " ">>, <<"v", "5">>, <<>>}

\* UUIDGenerator.generate_uuid
GenerateUuid ==
    /\ pc = "idle"
    /\ \E token \in VersionTokens : \E out \in generate_uuid(token) :
        /\ op' = "generate_uuid"
        /\ args' = [version |-> token]
        /\ ret' = out.ret
        /\ draws' = out.draws
    /\ pc' = "done"
    /\ UNCHANGED <<charset, _rng, attempt, batch>>

UuidCounts == {0, 1, 2, MaxUuidCount + 1}
MultipleVersionTokens == {<<"v", "4">>, <<"1">>, <<"v", "7">>}

\* what generate_multiple_uuids returns for the list uuids
MultipleUuidsResult(a, uuids) ==
    [uuids |-> uuids,
     count |-> a.count,
     version |-> upper(a.version),
     type |-> get_version_description(a.version).type,
     format |-> "8-4-4-4-12 hexadecimal digits"]

\* generate_multiple_uuids, from the call to its first generate_uuid
GenerateMultipleUuids ==
    /\ pc = "idle"
    /\ \E count \in UuidCounts, token \in MultipleVersionTokens :
        /\ op' = "generate_multiple_uuids"
        /\ args' = [version |-> token, count |-> count]
        /\ IF count < 1 \/ count > MaxUuidCount
           THEN /\ ret' = Raise("ValueError",
                                "Count must be an integer between 1 and 100")
                /\ pc' = "done"
           ELSE /\ ret' = NoRet
                /\ pc' = "uuid_loop"
    /\ draws' = 0
    /\ batch' = <<>>
    /\ UNCHANGED <<charset, _rng, attempt>>

\* one iteration of  for _ in range(count)  and, after the last, the return
UuidStep ==
    /\ pc = "uuid_loop"
    /\ \E out \in generate_uuid(args.version) :
        /\ draws' = draws + out.draws
        /\ IF out.ret.status = "error"
           THEN /\ ret' = out.ret
                /\ pc' = "done"
                /\ UNCHANGED batch
           ELSE LET item == [uuid |-> out.ret.value.uuid,
                             hex |-> out.ret.value.metadata.hex]
                IN  /\ batch' = Append(batch, item)
                    /\ IF Len(batch) + 1 = args.count
                       THEN /\ ret' = Ok(MultipleUuidsResult(args,
                                                             Append(batch, item)))
                            /\ pc' = "done"
                       ELSE UNCHANGED <<ret, pc>>
    /\ UNCHANGED <<op, args, charset, _rng, attempt>>

---------------------------------------------------------------------------
(* Text for the utilities: a str is the sequence of its code points, bytes
   are a sequence of 0..255 *)

MaxTextLen == 3
MaxEncodedLen == 4

\* every text of at most n characters over the code points cps
TextsOver(cps, n) == UNION {[1..k -> cps] : k \in 0..n}

RECURSIVE Flatten(_)
Flatten(parts) ==
    IF parts = <<>> THEN <<>> ELSE Head(parts) \o Flatten(Tail(parts))

Count(c, s) == Cardinality({i \in DOMAIN s : s[i] = c})

\* the characters str.strip() and str.split() take for whitespace
IsSpace(c) ==
    c \in (9..13) \cup (28..32) \cup {133, 160, 5760} \cup (8192..8202)
          \cup {8232, 8233, 8239, 8287, 12288}

\* str.strip() of a text
RECURSIVE lstrip_text(_)
lstrip_text(s) == IF s # <<>> /\ IsSpace(s[1]) THEN lstrip_text(Tail(s)) ELSE s
RECURSIVE rstrip_text(_)
rstrip_text(s) ==
    IF s # <<>> /\ IsSpace(s[Len(s)])
    THEN rstrip_text(SubSeq(s, 1, Len(s) - 1)) ELSE s
strip_text(s) == rstrip_text(lstrip_text(s))

\* the UTF-8 bytes of one code point (no surrogate: a text is a sequence of
\* Unicode scalar values)
utf8_char(cp) ==
    IF cp < 128 THEN <<cp>>
    ELSE IF cp < 2048 THEN <<192 + (cp \div 64), 128 + (cp % 64)>>
    ELSE IF cp < 65536
    THEN <<224 + (cp \div 4096), 128 + ((cp \div 64) % 64), 128 + (cp % 64)>>
    ELSE <<240 + (cp \div 262144), 128 + ((cp \div 4096) % 64),
           128 + ((cp \div 64) % 64), 128 + (cp % 64)>>

\* text.encode('utf-8')
utf8_encode(text) == Flatten([i \in DOMAIN text |-> utf8_char(text[i])])

\* The UTF-8 decoder: the code points of the byte string, -1 standing for
\* each maximal ill-formed run of bytes (the decoder's error positions).
RECURSIVE utf8_scan(_)
utf8_scan(b) ==
    IF b = <<>> THEN <<>>
    ELSE
        LET n == Len(b)
            b0 == b[1]
            Cont(k, lo, hi) == k <= n /\ b[k] >= lo /\ b[k] <= hi
            lo2 == IF b0 = 224 THEN 160 ELSE IF b0 = 240 THEN 144 ELSE 128
            hi2 == IF b0 = 237 THEN 159 ELSE IF b0 = 244 THEN 143 ELSE 191
            need == IF b0 < 128 THEN 1
                    ELSE IF b0 >= 194 /\ b0 <= 223 THEN 2
                    ELSE IF b0 >= 224 /\ b0 <= 239 THEN 3
                    ELSE IF b0 >= 240 /\ b0 <= 244 THEN 4
                    ELSE 0
            matched == IF need <= 1 THEN 1
                       ELSE IF ~Cont(2, lo2, hi2) THEN 1
                       ELSE IF need = 2 THEN 2
                       ELSE IF ~Cont(3, 128, 191) THEN 2
                       ELSE IF need = 3 THEN 3
                       ELSE IF ~Cont(4, 128, 191) THEN 3
                       ELSE 4
            cp == CASE need = 1 -> b0
                    [] need = 2 -> (b0 - 192) * 64 + (b[2] - 128)
                    [] need = 3 -> (b0 - 224) * 4096 + (b[2] - 128) * 64
                                   + (b[3] - 128)
                    [] need = 4 -> (b0 - 240) * 262144 + (b[2] - 128) * 4096
                                   + (b[3] - 128) * 64 + (b[4] - 128)
        IN  <<IF need > 0 /\ matched = need THEN cp ELSE -1>>
            \o utf8_scan(SubSeq(b, matched + 1, n))

\* a decoder that takes every byte for a character
utf8_decode_Latin1(b) == [ok |-> TRUE, text |-> b]

\* bytes.decode('utf-8'): strict, a UnicodeDecodeError on any ill-formed run
utf8_decode(b) ==
    LET s == utf8_scan(b)
    IN  IF \E i \in DOMAIN s : s[i] = -1 THEN [ok |-> FALSE]
        ELSE [ok |-> TRUE, text |-> s]

\* bytes.decode('utf-8', 'replace'): U+FFFD for every ill-formed run
utf8_decode_replace(b) ==
    LET s == utf8_scan(b)
    IN  [i \in DOMAIN s |-> IF s[i] = -1 THEN 65533 ELSE s[i]]

---------------------------------------------------------------------------
(* Base64Utility *)

\* the character of a 6-bit group in the standard alphabet, '=' for padding
b64_char(v) ==
    IF v < 26 THEN 65 + v
    ELSE IF v < 52 THEN 97 + (v - 26)
    ELSE IF v < 62 THEN 48 + (v - 52)
    ELSE IF v = 62 THEN 43
    ELSE IF v = 63 THEN 47
    ELSE 61

\* the 6-bit group of a character, 64 for '=', -1 outside the alphabet
b64_value(c) ==
    IF c >= 65 /\ c <= 90 THEN c - 65
    ELSE IF c >= 97 /\ c <= 122 THEN c - 97 + 26
    ELSE IF c >= 48 /\ c <= 57 THEN c - 48 + 52
    ELSE IF c = 43 THEN 62
    ELSE IF c = 47 THEN 63
    ELSE IF c = 61 THEN 64
    ELSE -1

\* b64encode that leaves the padding out
b64encode_Unpadded(bytes) ==
    LET sx == SelectSeq(b64_sextets(bytes), LAMBDA x : x # 64)
    IN  [i \in DOMAIN sx |-> b64_char(sx[i])]

\* base64.b64encode(bytes).decode('ascii')
b64encode(bytes) ==
    [i \in DOMAIN b64_sextets(bytes) |-> b64_char(b64_sextets(bytes)[i])]

\* ''.join(text.split())
remove_whitespace(text) == SelectSeq(text, LAMBDA c : ~IsSpace(c))

\* _is_valid_base64 without its check of the padding
is_valid_base64_AnyPadding(text) ==
    LET t == remove_whitespace(text)
    IN  /\ Len(t) % 4 = 0
        /\ \A i \in DOMAIN t : b64_value(t[i]) >= 0

\* _is_valid_base64(text)
is_valid_base64(text) ==
    LET t == remove_whitespace(text)
        pads == {i \in DOMAIN t : t[i] = 61}
        padding_start == CHOOSE i \in pads : \A j \in pads : i <= j
    IN  /\ Len(t) % 4 = 0
        /\ \A i \in DOMAIN t : b64_value(t[i]) >= 0
        /\ pads # {} =>
              /\ \A i \in padding_start..Len(t) : t[i] = 61
              /\ Len(t) - padding_start + 1 \in {1, 2}

\* base64.b64decode of a text _is_valid_base64 has accepted: the characters
\* outside the alphabet are discarded, every four characters give three
\* bytes, and a last group ending in '==' gives one byte, in '=' two.
b64decode(text) ==
    LET t == SelectSeq(text, LAMBDA c : b64_value(c) >= 0)
        v == [i \in DOMAIN t |-> b64_value(t[i]) % 64]
        pad == Count(61, t)
        n == 3 * (Len(t) \div 4) - pad
        Byte(k) ==
            LET g == (k - 1) \div 3
                j == (k - 1) % 3
            IN  CASE j = 0 -> v[4 * g + 1] * 4 + (v[4 * g + 2] \div 16)
                  [] j = 1 -> (v[4 * g + 2] % 16) * 16 + (v[4 * g + 3] \div 4)
                  [] j = 2 -> (v[4 * g + 3] % 4) * 64 + v[4 * g + 4]
    IN  [k \in 1..n |-> Byte(k)]

\* Base64Utility.encode(text)
base64_encode(text) ==
    IF text = <<>> THEN Raise("ValueError", "Input text cannot be empty")
    ELSE LET encoded_string == b64encode(utf8_encode(text))
         IN  Ok([encoded |-> encoded_string,
                 original_text |-> text,
                 original_length |-> Len(text),
                 encoded_length |-> Len(encoded_string),
                 padding_chars |-> Count(61, encoded_string),
                 is_valid_base64 |-> is_valid_base64(encoded_string)])

\* Base64Utility.decode(encoded_text)
base64_decode(encoded_text) ==
    IF encoded_text = <<>>
    THEN Raise("ValueError", "Input text cannot be empty")
    ELSE LET stripped == strip_text(encoded_text)
             decoded_bytes == b64decode(stripped)
             decoded_string == utf8_decode(decoded_bytes)
         IN  IF ~is_valid_base64(stripped)
             THEN Raise("ValueError", "Invalid Base64 format")
             ELSE IF \E i \in DOMAIN stripped : stripped[i] > 127
             THEN \* b64decode takes only ASCII: whitespace beyond it, that
                  \* the format check has removed, is still in the text
                  Raise("ValueError", "Error decoding Base64")
             ELSE IF ~decoded_string.ok
             THEN Raise("ValueError", "Decoded bytes are not valid UTF-8 text")
             ELSE Ok([decoded |-> decoded_string.text,
                      original_encoded |-> stripped,
                      encoded_length |-> Len(stripped),
                      decoded_length |-> Len(decoded_string.text),
                      padding_chars |-> Count(61, stripped),
                      bytes_decoded |-> Len(decoded_bytes)])

\* the texts handed to encode: A, space, e-acute, the euro sign, an emoji
\* (1, 1, 2, 3 and 4 bytes of UTF-8), the empty text included
Base64Texts == TextsOver({65, 32, 233, 8364, 128512}, MaxTextLen)

\* the texts handed to decode: over Q, A, w, '/', '=', space, '-' and the
\* no-break space, in and outside the Base64 format
Base64Encoded == TextsOver({81, 65, 119, 47, 61, 32, 45, 160}, MaxEncodedLen)

Base64Encode ==
    /\ pc = "idle"
    /\ \E text \in Base64Texts :
        /\ op' = "base64_encode"
        /\ args' = [text |-> text]
        /\ ret' = base64_encode(text)
    /\ pc' = "done"
    /\ UNCHANGED <<charset, _rng, attempt, batch, draws>>

Base64Decode ==
    /\ pc = "idle"
    /\ \E encoded_text \in Base64Encoded :
        /\ op' = "base64_decode"
        /\ args' = [encoded_text |-> encoded_text]
        /\ ret' = base64_decode(encoded_text)
    /\ pc' = "done"
    /\ UNCHANGED <<charset, _rng, attempt, batch, draws>>

\* the caller of the round trip: what encode has returned goes to decode
Base64RoundTrip ==
    /\ pc = "done"
    /\ op = "base64_encode"
    /\ ret.status = "ok"
    /\ op' = "base64_roundtrip"
    /\ args' = [text |-> args.text, encoded_text |-> ret.value.encoded]
    /\ ret' = base64_decode(ret.value.encoded)
    /\ UNCHANGED <<pc, charset, _rng, attempt, batch, draws>>

---------------------------------------------------------------------------
(* URLUtility *)

UpperHexDigits ==
    <<48, 49, 50, 51, 52, 53, 54, 55, 56, 57, 65, 66, 67, 68, 69, 70>>

\* the value of a hexadecimal digit of either case, -1 for another character
hex_value(c) ==
    IF c >= 48 /\ c <= 57 THEN c - 48
    ELSE IF c >= 65 /\ c <= 70 THEN c - 55
    ELSE IF c >= 97 /\ c <= 102 THEN c - 87
    ELSE -1

\* urllib.parse: the bytes quote never escapes, A-Z a-z 0-9 _ . - ~
always_safe ==
    (65..90) \cup (97..122) \cup (48..57) \cup {95, 46, 45, 126}

\* urllib.parse.quote(text, safe): the UTF-8 bytes, each byte outside the
\* unreserved and the safe ones as %XX
quote(text, safe) ==
    LET bytes == utf8_encode(text)
    IN  Flatten([i \in DOMAIN bytes |->
            IF bytes[i] \in always_safe \cup safe THEN <<bytes[i]>>
            ELSE <<37, UpperHexDigits[(bytes[i] \div 16) + 1],
                   UpperHexDigits[(bytes[i] % 16) + 1]>>])

\* str.replace of one character by another
replace_char(s, old, new) == [i \in DOMAIN s |-> IF s[i] = old THEN new ELSE s[i]]

\* quote_plus that leaves a literal '+' as it is
quote_plus_KeepsPlus(text) == replace_char(quote(text, {32, 43}), 32, 43)

\* urllib.parse.quote_plus(text)
quote_plus(text) ==
    IF \A i \in DOMAIN text : text[i] # 32 THEN quote(text, {})
    ELSE replace_char(quote(text, {32}), 32, 43)

\* urllib.parse.unquote_to_bytes of an ASCII text: %XX with two hexadecimal
\* digits is the byte, every other character stays
RECURSIVE unquote_to_bytes(_)
unquote_to_bytes(s) ==
    IF s = <<>> THEN <<>>
    ELSE IF s[1] = 37 /\ Len(s) >= 3 /\ hex_value(s[2]) >= 0 /\ hex_value(s[3]) >= 0
    THEN <<16 * hex_value(s[2]) + hex_value(s[3])>>
         \o unquote_to_bytes(SubSeq(s, 4, Len(s)))
    ELSE <<s[1]>> \o unquote_to_bytes(Tail(s))

\* the length of the ASCII run a text starts with
RECURSIVE ascii_run(_)
ascii_run(s) == IF s # <<>> /\ s[1] < 128 THEN 1 + ascii_run(Tail(s)) ELSE 0

\* urllib.parse.unquote(text): every ASCII run is unquoted to bytes and
\* decoded as UTF-8 with errors='replace', the rest stays
RECURSIVE unquote(_)
unquote(s) ==
    IF s = <<>> THEN <<>>
    ELSE IF s[1] < 128
    THEN utf8_decode_replace(unquote_to_bytes(SubSeq(s, 1, ascii_run(s))))
         \o unquote(SubSeq(s, ascii_run(s) + 1, Len(s)))
    ELSE <<s[1]>> \o unquote(Tail(s))

\* urllib.parse.unquote_plus(text)
unquote_plus(s) == unquote(replace_char(s, 43, 32))

\* sub in s
Contains(s, sub) ==
    \E i \in 1..(Len(s) - Len(sub) + 1) : SubSeq(s, i, i + Len(sub) - 1) = sub

standard == <<"s", "t", "a", "n", "d", "a", "r", "d">>
plus == <<"p", "l", "u", "s">>
component == <<"c", "o", "m", "p", "o", "n", "e", "n", "t">>
auto == <<"a", "u", "t", "o">>

\* the characters : / ? # [ ] @ ! $ & ' ( ) * + , ; =
reserved == {58, 47, 63, 35, 91, 93, 64, 33, 36, 38, 39, 40, 41, 42, 43, 44, 59, 61}

\* _get_safe_characters(encoding_type): the characters the returned string
\* lists, the ranges A-Z a-z 0-9 spelled out
get_safe_characters(encoding_type) ==
    IF encoding_type = standard THEN always_safe \cup reserved
    ELSE IF encoding_type = plus THEN always_safe \cup (reserved \ {43})
    ELSE always_safe

\* encode whose standard mode leaves the reserved characters as they are
url_encode_ReservedSafe(text, encoding_type) ==
    LET type == strip(lower(encoding_type))
        encoded == IF type = standard THEN quote(text, reserved)
                   ELSE IF type = plus THEN quote_plus(text)
                   ELSE quote(text, {})
        percent_chars == Count(37, encoded)
        plus_chars == IF type = plus THEN Count(43, encoded) ELSE 0
    IN  IF text = <<>> THEN Raise("ValueError", "Input text cannot be empty")
        ELSE IF type \notin {standard, plus, component}
        THEN Raise("ValueError", "Encoding type must be one of: 'standard', 'plus', 'component'")
        ELSE Ok([encoded |-> encoded,
                 original_text |-> text,
                 encoding_type |-> type,
                 original_length |-> Len(text),
                 encoded_length |-> Len(encoded),
                 percent_encoded_chars |-> percent_chars,
                 plus_encoded_chars |-> plus_chars,
                 characters_encoded |-> percent_chars + plus_chars,
                 safe_characters |-> get_safe_characters(type)])

\* URLUtility.encode(text, encoding_type)
url_encode(text, encoding_type) ==
    LET type == strip(lower(encoding_type))
        encoded == IF type = standard THEN quote(text, {47})
                   ELSE IF type = plus THEN quote_plus(text)
                   ELSE quote(text, {})
        percent_chars == Count(37, encoded)
        plus_chars == IF type = plus THEN Count(43, encoded) ELSE 0
    IN  IF text = <<>> THEN Raise("ValueError", "Input text cannot be empty")
        ELSE IF type \notin {standard, plus, component}
        THEN Raise("ValueError", "Encoding type must be one of: 'standard', 'plus', 'component'")
        ELSE Ok([encoded |-> encoded,
                 original_text |-> text,
                 encoding_type |-> type,
                 original_length |-> Len(text),
                 encoded_length |-> Len(encoded),
                 percent_encoded_chars |-> percent_chars,
                 plus_encoded_chars |-> plus_chars,
                 characters_encoded |-> percent_chars + plus_chars,
                 safe_characters |-> get_safe_characters(type)])

\* decode whose auto mode takes every text with a '+' for form data
url_decode_PlusWheneverPlus(encoded_text, encoding_type) ==
    LET type == strip(lower(encoding_type))
        detected_type ==
            IF type = auto
            THEN IF Contains(encoded_text, <<43>>) THEN plus ELSE standard
            ELSE type
        decoded == IF detected_type = plus THEN unquote_plus(encoded_text)
                   ELSE unquote(encoded_text)
        percent_chars == Count(37, encoded_text)
        plus_chars == Count(43, encoded_text)
    IN  IF encoded_text = <<>>
        THEN Raise("ValueError", "Input text cannot be empty")
        ELSE IF type \notin {standard, plus, auto}
        THEN Raise("ValueError", "Decoding type must be one of: 'standard', 'plus', 'auto'")
        ELSE Ok([decoded |-> decoded,
                 original_encoded |-> encoded_text,
                 decoding_type |-> detected_type,
                 encoded_length |-> Len(encoded_text),
                 decoded_length |-> Len(decoded),
                 percent_encoded_chars |-> percent_chars,
                 plus_encoded_chars |-> plus_chars,
                 characters_decoded |->
                    percent_chars + (IF detected_type = plus THEN plus_chars ELSE 0)])

\* URLUtility.decode(encoded_text, encoding_type)
url_decode(encoded_text, encoding_type) ==
    LET type == strip(lower(encoding_type))
        detected_type ==
            IF type = auto
            THEN IF Contains(encoded_text, <<43>>)
                    /\ ~Contains(encoded_text, <<37, 50, 48>>)
                 THEN plus ELSE standard
            ELSE type
        decoded == IF detected_type = plus THEN unquote_plus(encoded_text)
                   ELSE unquote(encoded_text)
        percent_chars == Count(37, encoded_text)
        plus_chars == Count(43, encoded_text)
    IN  IF encoded_text = <<>>
        THEN Raise("ValueError", "Input text cannot be empty")
        ELSE IF type \notin {standard, plus, auto}
        THEN Raise("ValueError", "Decoding type must be one of: 'standard', 'plus', 'auto'")
        ELSE Ok([decoded |-> decoded,
                 original_encoded |-> encoded_text,
                 decoding_type |-> detected_type,
                 encoded_length |-> Len(encoded_text),
                 decoded_length |-> Len(decoded),
                 percent_encoded_chars |-> percent_chars,
                 plus_encoded_chars |-> plus_chars,
                 characters_decoded |->
                    percent_chars + (IF detected_type = plus THEN plus_chars ELSE 0)])

\* the texts handed to encode: space, '%', '+', '/', '&', 2, 0, e-acute,
\* the euro sign and an emoji, the empty text included
UrlTexts ==
    TextsOver({32, 37, 43, 47, 38, 50, 48, 233, 8364, 128512}, MaxTextLen)

\* the texts handed to decode: over '%', 2, 0, '+', B, F and e-acute
UrlEncoded == TextsOver({37, 50, 48, 43, 66, 70, 233}, MaxEncodedLen)

EncodingTypes == {standard, plus, component, <<" ", "P", "L", "U", "S">>, auto}
DecodingTypes == {standard, plus, auto, <<"A", "u", "t", "o", " ">>, component}

UrlEncode ==
    /\ pc = "idle"
    /\ \E text \in UrlTexts, encoding_type \in EncodingTypes :
        /\ op' = "url_encode"
        /\ args' = [text |-> text, encoding_type |-> encoding_type]
        /\ ret' = url_encode(text, encoding_type)
    /\ pc' = "done"
    /\ UNCHANGED <<charset, _rng, attempt, batch, draws>>

UrlDecode ==
    /\ pc = "idle"
    /\ \E encoded_text \in UrlEncoded, encoding_type \in DecodingTypes :
        /\ op' = "url_decode"
        /\ args' = [encoded_text |-> encoded_text,
                    encoding_type |-> encoding_type]
        /\ ret' = url_decode(encoded_text, encoding_type)
    /\ pc' = "done"
    /\ UNCHANGED <<charset, _rng, attempt, batch, draws>>

\* the caller of the round trip: what encode has returned goes to decode,
\* with the type encode was called with
UrlRoundTrip ==
    /\ pc = "done"
    /\ op = "url_encode"
    /\ ret.status = "ok"
    /\ op' = "url_roundtrip"
    /\ args' = [text |-> args.text, encoding_type |-> args.encoding_type,
                encoded_text |-> ret.value.encoded]
    /\ ret' = url_decode(ret.value.encoded, args.encoding_type)
    /\ UNCHANGED <<pc, charset, _rng, attempt, batch, draws>>

\* the caller of the round trip through auto: what encode has returned goes
\* to decode with the type auto
UrlRoundTripAuto ==
    /\ pc = "done"
    /\ op = "url_encode"
    /\ ret.status = "ok"
    /\ op' = "url_roundtrip_auto"
    /\ args' = [text |-> args.text, encoding_type |-> ret.value.encoding_type,
                encoded_text |-> ret.value.encoded]
    /\ ret' = url_decode(ret.value.encoded, auto)
    /\ UNCHANGED <<pc, charset, _rng, attempt, batch, draws>>

---------------------------------------------------------------------------
(* Python values: an argument is a str (the sequence of its code points or
   characters) or a value of another type; the value of an int is kept as
   the sequence of the one number *)

Str(s) == [type |-> "str", value |-> s]
PyNone == [type |-> "NoneType", value |-> <<>>]
PyInt(n) == [type |-> "int", value |-> <<n>>]
PyList(items) == [type |-> "list", value |-> items]
PyBytes(b) == [type |-> "bytes", value |-> b]

\* isinstance(v, str)
isinstance_str(v) == v.type = "str"

\* whether len(v) is defined: None and int have none
has_len(v) == v.type \in {"str", "list", "bytes"}

\* the values of another type the model passes where a str is required
NonStrings == {PyNone, PyInt(4), PyList(<<>>), PyList(<<97>>), PyBytes(<<97, 98>>)}

---------------------------------------------------------------------------
(* HashGenerator *)

MaxAlgorithms == 3

\* the keys of SUPPORTED_ALGORITHMS, in their order
SUPPORTED_ALGORITHMS ==
    <<<<"m", "d", "5">>,
      <<"s", "h", "a", "1">>,
      <<"s", "h", "a", "2", "2", "4">>,
      <<"s", "h", "a", "2", "5", "6">>,
      <<"s", "h", "a", "3", "8", "4">>,
      <<"s", "h", "a", "5", "1", "2">>,
      <<"s", "h", "a", "3", "_", "2", "2", "4">>,
      <<"s", "h", "a", "3", "_", "2", "5", "6">>,
      <<"s", "h", "a", "3", "_", "3", "8", "4">>,
      <<"s", "h", "a", "3", "_", "5", "1", "2">>,
      <<"b", "l", "a", "k", "e", "2", "b">>,
      <<"b", "l", "a", "k", "e", "2", "s">>>>

\* the number of hexadecimal digits of each algorithm's digest
output_size == <<32, 40, 56, 64, 96, 128, 56, 64, 96, 128, 128, 64>>

\* hashlib's hexdigest of the bytes.  The digits stand for the digest: they
\* are a function of the algorithm and of the bytes, of the algorithm's
\* digest size; they are not the digits hashlib computes.
RECURSIVE byte_mix(_, _)
byte_mix(bytes, i) ==
    IF bytes = <<>> THEN 0
    ELSE (bytes[Len(bytes)] * (Len(bytes) + i)
          + byte_mix(SubSeq(bytes, 1, Len(bytes) - 1), i)) % 65536
hexdigest(k, bytes) ==
    [i \in 1..output_size[k] |-> HexDigits[((byte_mix(bytes, i) + 7 * k + i) % 16) + 1]]

\* HashGenerator.generate_hash(text, algorithm)
generate_hash(text, algorithm) ==
    LET name == strip(lower(algorithm))
        hash_value == hexdigest(IndexOf(name, SUPPORTED_ALGORITHMS),
                                utf8_encode(text.value))
    IN  IF ~isinstance_str(text)
        THEN Raise("ValueError", "Text must be a string")
        ELSE IF name \notin Range(SUPPORTED_ALGORITHMS)
        THEN Raise("ValueError", "Unsupported algorithm")
        ELSE Ok([hash |-> hash_value,
                 algorithm |-> name,
                 input_text |-> text.value,
                 input_length |-> Len(text.value),
                 hash_length |-> Len(hash_value),
                 encoding |-> "utf-8"])

\* the entry generate_multiple_hashes keeps for one algorithm
hash_entry(text, algorithm) ==
    LET result == generate_hash(text, algorithm)
    IN  IF result.status = "ok"
        THEN [hash |-> result.value.hash,
              hash_length |-> result.value.hash_length]
        ELSE [error |-> result.message]

\* a loop that gives up at the first algorithm that fails
RECURSIVE hash_results_StopsAtError(_, _)
hash_results_StopsAtError(text, algorithms) ==
    IF algorithms = <<>> THEN <<>>
    ELSE IF generate_hash(text, Head(algorithms)).status = "error"
    THEN (Head(algorithms) :> hash_entry(text, Head(algorithms)))
    ELSE hash_results_StopsAtError(text, Tail(algorithms))
         @@ (Head(algorithms) :> hash_entry(text, Head(algorithms)))

\* the loop of generate_multiple_hashes: results after the whole list, a
\* later entry of a name replacing an earlier one
RECURSIVE hash_results(_, _)
hash_results(text, algorithms) ==
    IF algorithms = <<>> THEN <<>>
    ELSE LET algorithm == algorithms[Len(algorithms)]
         IN  (algorithm :> hash_entry(text, algorithm))
             @@ hash_results(text, SubSeq(algorithms, 1, Len(algorithms) - 1))

default_algorithms ==
    <<<<"m", "d", "5">>, <<"s", "h", "a", "1">>, <<"s", "h", "a", "2", "5", "6">>, <<"s", "h", "a", "5", "1", "2">>>>

\* HashGenerator.generate_multiple_hashes(text, algorithms); algorithms is
\* None or a list of names
generate_multiple_hashes(text, algorithms) ==
    LET names == IF algorithms.isNone THEN default_algorithms ELSE algorithms.str
    IN  IF ~has_len(text)
        THEN Raise("TypeError", "object has no len()")
        ELSE Ok([hashes |-> hash_results(text, names),
                 input_text |-> text.value,
                 input_length |-> Len(text.value),
                 algorithms_used |-> names])

\* the texts handed to the hash operations: the str over a and e-acute, and
\* values that are no str
HashTexts == {Str(s) : s \in TextsOver({97, 233}, MaxTextLen)} \cup NonStrings

\* the algorithm names: supported ones, as written and in another case with
\* whitespace, and unsupported ones
AlgorithmNames ==
    {<<"m", "d", "5">>, <<"s", "h", "a", "2", "5", "6">>,
     <<" ", "S", "H", "A", "1">>, <<"c", "r", "c", "3", "2">>, <<>>}

AlgorithmLists ==
    {None} \cup {Some(l) : l \in UNION {[1..k -> AlgorithmNames] : k \in 0..MaxAlgorithms}}

GenerateHash ==
    /\ pc = "idle"
    /\ \E text \in HashTexts, algorithm \in AlgorithmNames :
        /\ op' = "generate_hash"
        /\ args' = [text |-> text, algorithm |-> algorithm]
        /\ ret' = generate_hash(text, algorithm)
    /\ pc' = "done"
    /\ UNCHANGED <<charset, _rng, attempt, batch, draws>>

GenerateMultipleHashes ==
    /\ pc = "idle"
    /\ \E text \in HashTexts, algorithms \in AlgorithmLists :
        /\ op' = "generate_multiple_hashes"
        /\ args' = [text |-> text, algorithms |-> algorithms]
        /\ ret' = generate_multiple_hashes(text, algorithms)
    /\ pc' = "done"
    /\ UNCHANGED <<charset, _rng, attempt, batch, draws>>

---------------------------------------------------------------------------
(* UUIDGenerator.validate_uuid *)

\* F(e), with e computed once however often F uses its argument
Apply(F(_), e) == CHOOSE r \in {F(x) : x \in {e}} : TRUE

\* str.replace(sub, '') from position i on: every occurrence of sub, from
\* the left, taken out
RECURSIVE remove_from(_, _, _)
remove_from(s, sub, i) ==
    IF i + Len(sub) - 1 > Len(s) THEN SubSeq(s, i, Len(s))
    ELSE IF SubSeq(s, i, i + Len(sub) - 1) = sub
    THEN remove_from(s, sub, i + Len(sub))
    ELSE <<s[i]>> \o remove_from(s, sub, i + 1)

remove_all(s, sub) == Apply(LAMBDA v : remove_from(v, sub, 1), s)

\* str.strip(chars)
strip_chars(s, chars) ==
    LET kept(v) == {i \in DOMAIN v : v[i] \notin chars}
        lo(v) == CHOOSE i \in kept(v) : \A j \in kept(v) : i <= j
        hi(v) == CHOOSE i \in kept(v) : \A j \in kept(v) : i >= j
        strip_value(v) == IF kept(v) = {} THEN <<>> ELSE SubSeq(v, lo(v), hi(v))
    IN  Apply(strip_value, s)

\* the value of a hexadecimal digit character of either case, -1 for another
hex_digit(c) ==
    IF c \in Range(HexDigits) THEN IndexOf(c, HexDigits) - 1
    ELSE IF c \in {"A", "B", "C", "D", "E", "F"}
    THEN IndexOf(c, <<"A", "B", "C", "D", "E", "F">>) + 9
    ELSE -1

\* int(text, 16): whitespace around, a sign, an 0x prefix and single
\* underscores between the digits are taken; the digits, or a ValueError
int16(text) ==
    LET parse(t) ==
            LET signed == t # <<>> /\ t[1] \in {"+", "-"}
                u == IF signed THEN Tail(t) ELSE t
                prefixed == Len(u) >= 2 /\ u[1] = "0" /\ u[2] \in {"x", "X"}
                v == IF prefixed THEN SubSeq(u, 3, Len(u)) ELSE u
                well_formed(body) ==
                    /\ body # <<>>
                    /\ hex_digit(body[1]) >= 0
                    /\ hex_digit(body[Len(body)]) >= 0
                    /\ \A i \in DOMAIN body :
                        \/ hex_digit(body[i]) >= 0
                        \/ body[i] = "_" /\ hex_digit(body[i + 1]) >= 0
                value(body) ==
                    IF well_formed(body)
                    THEN [ok |-> TRUE,
                          digits |-> Apply(LAMBDA ds :
                                        [i \in DOMAIN ds |-> hex_digit(ds[i])],
                                        SelectSeq(body, LAMBDA c : c # "_"))]
                    ELSE [ok |-> FALSE]
            IN  Apply(value,
                      IF prefixed /\ v # <<>> /\ v[1] = "_" THEN Tail(v) ELSE v)
    IN  Apply(parse, strip(text))

\* uuid.UUID(text): the 16 bytes, or the ValueError
UUID(text) ==
    LET bytes_of(d) == [i \in 1..16 |-> 16 * d[2 * i - 1] + d[2 * i]]
        from_int(parsed) ==
            IF ~parsed.ok
            THEN [ok |-> FALSE, error |-> "invalid literal for int() with base 16"]
            ELSE [ok |-> TRUE,
                  bytes |-> Apply(bytes_of,
                                  [i \in 1..(32 - Len(parsed.digits)) |-> 0]
                                  \o parsed.digits)]
        from_hex(h) ==
            IF Len(h) # 32
            THEN [ok |-> FALSE, error |-> "badly formed hexadecimal UUID string"]
            ELSE Apply(from_int, int16(h))
    IN  Apply(from_hex,
              remove_all(strip_chars(remove_all(remove_all(text,
                    <<"u", "r", "n", ":">>), <<"u", "u", "i", "d", ":">>),
                    {"{", "}"}), <<"-">>))

\* a version tag that does not read the UUID
version_tag_AlwaysV4(u) == <<"v", "4">>

\* f"v{parsed_uuid.version}": the version is the high half of byte 7 when
\* the variant is the RFC 4122 one, and None otherwise
version_tag(u) ==
    LET n == u[7] \div 16
    IN  IF u[9] < 128 \/ u[9] >= 192 THEN <<"v", "N", "o", "n", "e">>
        ELSE IF n < 10 THEN <<"v", HexDigits[n + 1]>>
        ELSE <<"v", "1", HexDigits[n - 9]>>

\* UUIDGenerator.validate_uuid(uuid_string)
validate_uuid(uuid_string) ==
    LET valid(u) ==
            [is_valid |-> TRUE,
             uuid |-> uuid_str(u),
             version |-> upper(version_tag(u)),
             type |-> get_version_description(version_tag(u)).type,
             description |-> get_version_description(version_tag(u)).description,
             variant |-> get_uuid_variant(u),
             format |-> "8-4-4-4-12 hexadecimal digits",
             length |-> Len(uuid_str(u)),
             components |-> parse_uuid_components(u),
             metadata |-> [is_nil |-> \A i \in DOMAIN u : u[i] = 0,
                           hex |-> hex(u),
                           bytes_length |-> Len(u)]]
        invalid(stripped, error) ==
            [is_valid |-> FALSE,
             error |-> error,
             input |-> stripped,
             suggestions |->
                <<"UUID should be in format: 8-4-4-4-12 hexadecimal digits",
                  "Example: 550e8400-e29b-41d4-a716-446655440000",
                  "Check for correct length (36 characters with dashes)">>]
        result(stripped) ==
            Apply(LAMBDA parsed : IF parsed.ok THEN Ok(valid(parsed.bytes))
                                  ELSE Ok(invalid(stripped, parsed.error)),
                  UUID(stripped))
    IN  IF ~isinstance_str(uuid_string)
        THEN Raise("ValueError", "UUID must be a string")
        ELSE Apply(result, strip(uuid_string.value))

---------------------------------------------------------------------------
(* Base64Utility.validate and URLUtility.validate *)

\* base64.b64decode(text, validate=True) of a text _is_valid_base64 has
\* accepted: it takes no character outside the alphabet, whitespace included
can_decode_strict(text) == \A i \in DOMAIN text : b64_value(text[i]) >= 0

\* Base64Utility.validate(text); the message of the library in decode_error
\* is left out
base64_validate(text) ==
    LET result(stripped) ==
            IF stripped = <<>>
            THEN [is_valid |-> FALSE, error |-> "Input cannot be empty"]
            ELSE IF is_valid_base64(stripped)
            THEN [is_valid |-> TRUE,
                  can_decode |-> can_decode_strict(stripped),
                  length |-> Len(stripped),
                  padding_chars |-> Count(61, stripped)]
            ELSE [is_valid |-> FALSE, error |-> "Invalid Base64 format"]
    IN  IF ~isinstance_str(text)
        THEN Ok([is_valid |-> FALSE, error |-> "Input must be a string"])
        ELSE Ok(result(strip_text(text.value)))

\* the loop that takes a '%' at the end of the text for complete
RECURSIVE percent_issues_AllowsIncomplete(_, _)
percent_issues_AllowsIncomplete(text, i) ==
    IF i > Len(text) THEN <<>>
    ELSE IF text[i] # 37 THEN percent_issues_AllowsIncomplete(text, i + 1)
    ELSE IF i + 1 >= Len(text) THEN <<>>
    ELSE IF hex_value(text[i + 1]) < 0 \/ hex_value(text[i + 2]) < 0
    THEN <<[issue |-> "Invalid hex characters in percent sequence",
            position |-> i - 1]>>
         \o percent_issues_AllowsIncomplete(text, i + 3)
    ELSE percent_issues_AllowsIncomplete(text, i + 3)

\* the loop over the '%' of validate, from the character at index i (from 1)
\* on: the issues, each with the position (from 0) of its '%'
RECURSIVE percent_issues(_, _)
percent_issues(text, i) ==
    IF i > Len(text) THEN <<>>
    ELSE IF text[i] # 37 THEN percent_issues(text, i + 1)
    ELSE IF i + 1 >= Len(text)
    THEN <<[issue |-> "Incomplete percent sequence", position |-> i - 1]>>
         \o percent_issues(text, i + 3)
    ELSE IF hex_value(text[i + 1]) < 0 \/ hex_value(text[i + 2]) < 0
    THEN <<[issue |-> "Invalid hex characters in percent sequence",
            position |-> i - 1]>>
         \o percent_issues(text, i + 3)
    ELSE percent_issues(text, i + 3)

\* set(' "<>%{}|\\^`[]') without the '%'
unsafe_chars == {32, 34, 60, 62, 123, 125, 124, 92, 94, 96, 91, 93}

\* _detect_encoding_type(text): the likely type
detect_encoding_type(text) ==
    LET has_percent == Contains(text, <<37>>)
        has_plus == Contains(text, <<43>>)
        has_space_encoded == Contains(text, <<37, 50, 48>>)
    IN  IF has_plus /\ ~has_space_encoded THEN "plus"
        ELSE IF has_percent /\ ~has_plus THEN "standard"
        ELSE IF has_percent /\ has_plus THEN "mixed"
        ELSE "none"

\* URLUtility.validate(text); urllib.parse.unquote raises for no text, so
\* the trial decode adds no issue
url_validate(text) ==
    LET result(t) ==
            [is_valid |-> percent_issues(t, 1) = <<>>,
             issues |-> percent_issues(t, 1),
             warnings |-> IF \E i \in DOMAIN t : t[i] \in unsafe_chars
                          THEN <<"potentially unsafe unencoded characters">>
                          ELSE <<>>,
             unsafe_characters |->
                {[char |-> t[i], position |-> i - 1] :
                    i \in {j \in DOMAIN t : t[j] \in unsafe_chars}},
             statistics |-> [percent_sequences |-> Count(37, t),
                             plus_signs |-> Count(43, t),
                             length |-> Len(t)],
             can_decode |-> TRUE,
             likely_type |-> detect_encoding_type(t)]
    IN  IF ~isinstance_str(text)
        THEN Ok([is_valid |-> FALSE, error |-> "Input must be a string"])
        ELSE IF text.value = <<>>
        THEN Ok([is_valid |-> FALSE, error |-> "Input cannot be empty"])
        ELSE Ok(result(text.value))

\* the texts handed to URLUtility.validate: those handed to decode, texts
\* with a space and a '<', and '%22 ', '[%41]', '<%4', '%%41'
UrlValidated ==
    UrlEncoded \cup TextsOver({37, 32, 50, 60}, MaxTextLen)
               \cup {<<37, 50, 50, 32>>, <<91, 37, 52, 49, 93>>,
                     <<60, 37, 52>>, <<37, 37, 52, 49>>}


Base64Validate ==
    /\ pc = "idle"
    /\ \E text \in {Str(t) : t \in Base64Encoded} \cup NonStrings :
        /\ op' = "base64_validate"
        /\ args' = [text |-> text]
        /\ ret' = base64_validate(text)
    /\ pc' = "done"
    /\ UNCHANGED <<charset, _rng, attempt, batch, draws>>

UrlValidate ==
    /\ pc = "idle"
    /\ \E text \in {Str(t) : t \in UrlValidated} \cup NonStrings :
        /\ op' = "url_validate"
        /\ args' = [text |-> text]
        /\ ret' = url_validate(text)
    /\ pc' = "done"
    /\ UNCHANGED <<charset, _rng, attempt, batch, draws>>

---------------------------------------------------------------------------
(* The operations called with an argument of any type *)

\* str(n) of a natural number
RECURSIVE decimal(_)
decimal(n) ==
    IF n < 10 THEN <<digits[n + 1]>>
    ELSE decimal(n \div 10) \o <<digits[(n % 10) + 1]>>

\* str(value): a str is itself, None is 'None', an int its decimal digits, a
\* list of ints '[97, 98]', bytes of lower-case letters b'ab'
py_str(v) ==
    CASE v.type = "str" -> v.value
      [] v.type = "NoneType" -> <<"N", "o", "n", "e">>
      [] v.type = "int" -> decimal(v.value[1])
      [] v.type = "list" ->
            <<"[">> \o join(<<",", " ">>,
                            [i \in DOMAIN v.value |-> decimal(v.value[i])])
            \o <<"]">>
      [] v.type = "bytes" ->
            <<"b", "'">>
            \o [i \in DOMAIN v.value |-> ascii_lowercase[v.value[i] - 96]]
            \o <<"'">>

\* UUIDGenerator.generate_uuid(version), from its first line: str(version)
generate_uuid_of(version) == generate_uuid(py_str(version))

\* Base64Utility.encode and decode, from their first line
Base64Utility(method, text) ==
    IF ~isinstance_str(text) THEN Raise("ValueError", "Input must be a string")
    ELSE IF method = "encode" THEN base64_encode(text.value)
    ELSE base64_decode(text.value)

\* URLUtility.encode and decode, from their first line
URLUtility(method, text, encoding_type) ==
    IF ~isinstance_str(text) THEN Raise("ValueError", "Input must be a string")
    ELSE IF method = "encode" THEN url_encode(text.value, encoding_type)
    ELSE url_decode(text.value, encoding_type)

\* the version arguments that are a str; the others are NonStrings
VersionStrings == {Str(<<"v", "4">>), Str(<<"V", "1">>), Str(<<"2">>)}

\* the texts of the utilities: 'QQ==', '%41', and values that are no str
UtilityValues == {Str(<<81, 81, 61, 61>>), Str(<<37, 52, 49>>)} \cup NonStrings

GenerateUuidOf ==
    LET call(version) ==
            \E outcome \in generate_uuid_of(version) :
                /\ op' = "generate_uuid"
                /\ args' = [version |-> version]
                /\ ret' = outcome.ret
                /\ draws' = outcome.draws
    IN  /\ pc = "idle"
        /\ \/ \E version \in VersionStrings : call(version)
           \/ \E version \in NonStrings : call(version)
        /\ pc' = "done"
        /\ UNCHANGED <<charset, _rng, attempt, batch>>

Base64Call ==
    /\ pc = "idle"
    /\ \E method \in {"encode", "decode"}, text \in UtilityValues :
        /\ op' = "base64_" \o method
        /\ args' = [text |-> text]
        /\ ret' = Base64Utility(method, text)
    /\ pc' = "done"
    /\ UNCHANGED <<charset, _rng, attempt, batch, draws>>

UrlCall ==
    /\ pc = "idle"
    /\ \E method \in {"encode", "decode"}, text \in UtilityValues :
        /\ op' = "url_" \o method
        /\ args' = [text |-> text, encoding_type |-> standard]
        /\ ret' = URLUtility(method, text, standard)
    /\ pc' = "done"
    /\ UNCHANGED <<charset, _rng, attempt, batch, draws>>

\* the strings validate_uuid is called with: a generated value, the nil UUID,
\* the urn and the braces form, and strings that do not parse, some of them
\* with whitespace around
UuidStrings ==
    LET good == uuid_str(set_version([i \in 1..UuidBytes |-> 57], 4))
        nil == uuid_str([i \in 1..UuidBytes |-> 0])
        word == <<"n", "o", "t", "-", "a", "-", "u", "u", "i", "d">>
        plain == {good, nil, <<"u", "r", "n", ":", "u", "u", "i", "d", ":">> \o good,
                  <<"{">> \o good \o <<"}">>,
                  word, <<>>, SubSeq(good, 1, Len(good) - 1),
                  [good EXCEPT ![1] = "g"], good \o <<"0">>}
    IN  plain \cup {<<" ">> \o s \o <<" ">> : s \in plain}
              \cup {<<"\t">> \o s : s \in plain}
              \cup {s \o <<"\n">> : s \in plain}

\* UUIDGenerator.validate_uuid
ValidateUuid ==
    LET call(uuid_string) ==
            /\ op' = "validate_uuid"
            /\ args' = [uuid_string |-> uuid_string]
            /\ ret' = validate_uuid(uuid_string)
    IN  /\ pc = "idle"
        /\ \/ \E s \in UuidStrings : call(Str(s))
           \/ \E uuid_string \in NonStrings : call(uuid_string)
        /\ pc' = "done"
        /\ UNCHANGED <<charset, _rng, attempt, batch, draws>>

\* validate_uuid called with the uuid generate_uuid has just returned, as it
\* is or with whitespace around it; the generated record is kept beside it
ValidateGenerated ==
    /\ pc = "done"
    /\ op = "generate_uuid"
    /\ ret.status = "ok"
    /\ \E before \in {<<>>, <<" ">>}, after \in {<<>>, <<"\n">>, <<" ", "\t">>} :
        /\ args' = [uuid_string |-> Str(before \o ret.value.uuid \o after),
                    generated |-> ret.value]
        /\ ret' = validate_uuid(Str(before \o ret.value.uuid \o after))
    /\ op' = "validate_uuid"
    /\ pc' = "done"
    /\ UNCHANGED <<charset, _rng, attempt, batch, draws>>

---------------------------------------------------------------------------
(* The HTTP API *)

\* create_response(data, success, error); the timestamp is the time of the
\* call
create_response(data, success, error) ==
    IF success
    THEN [success |-> TRUE, timestamp |-> "utcnow", data |-> data]
    ELSE [success |-> FALSE, timestamp |-> "utcnow", error |-> error]

\* what a view returns: jsonify(body) and the status code
Json(body, code) ==
    [status |-> "response", code |-> code, mimetype |-> "application/json",
     body |-> body]

\* return create_response(None, False, {"code": ..., "message": ...}), status
Failure(code, message, http) ==
    Json(create_response(<<>>, FALSE, [code |-> code, message |-> message]),
         http)

\* the end of a view: create_response(data) of what the operation returned,
\* except ValueError: its message under the code invalid with 400,
\* except Exception: the message failed under the code fault with 500
respond(outcome, data(_), invalid, fault, failed) ==
    IF outcome.status = "ok"
    THEN Json(create_response(data(outcome.value), TRUE, <<>>), 200)
    ELSE IF outcome.kind = "ValueError"
    THEN Failure(invalid, outcome.message, 400)
    ELSE Failure(fault, failed, 500)

\* request.args.get(name, default)
args_get(query, name, default) ==
    IF name \in DOMAIN query THEN query[name] ELSE default

\* int(text): whitespace around, a sign and single underscores between the
\* digits are taken; the number, or a ValueError
int10(text) ==
    LET digit(c) == IF c \in Range(digits) THEN IndexOf(c, digits) - 1 ELSE -1
        value(ds) ==
            LET v[i \in 0..Len(ds)] ==
                    IF i = 0 THEN 0 ELSE 10 * v[i - 1] + digit(ds[i])
            IN  v[Len(ds)]
        number(body) ==
            IF /\ body # <<>>
               /\ digit(body[1]) >= 0
               /\ digit(body[Len(body)]) >= 0
               /\ \A i \in DOMAIN body :
                    \/ digit(body[i]) >= 0
                    \/ body[i] = "_" /\ digit(body[i + 1]) >= 0
            THEN [ok |-> TRUE,
                  value |-> value(SelectSeq(body, LAMBDA c : c # "_"))]
            ELSE [ok |-> FALSE, value |-> 0]
        parse(t) ==
            IF t # <<>> /\ t[1] = "-"
            THEN [ok |-> number(Tail(t)).ok, value |-> 0 - number(Tail(t)).value]
            ELSE IF t # <<>> /\ t[1] = "+" THEN number(Tail(t))
            ELSE number(t)
    IN  Apply(parse, strip(text))

InvalidLiteral == "invalid literal for int() with base 10"

\* the metadata of the text route, with is_array false for every result
text_data_NeverArray(result, content_type, count) ==
    [result |-> result.items,
     metadata |-> [type |-> content_type, count |-> count, is_array |-> FALSE]]

\* the data of the text route: the result and its metadata, is_array being
\* isinstance(result, list)
text_data(result, content_type, count) ==
    [result |-> result.items,
     metadata |-> [type |-> content_type, count |-> count,
                   is_array |-> result.is_list]]

\* the view generate_text of /api/v1/text/random on the tapes words, ints:
\* [ret |-> the response, draws |-> the values drawn]
text_random(query, words, ints) ==
    LET content_type == args_get(query, "type", "paragraph")
        count == int10(args_get(query, "count", <<"1">>))
        out == generate_text(content_type, count.value, words, ints)
        data(result) == text_data(result, content_type, count.value)
    IN  IF ~count.ok
        THEN [ret |-> Failure("INVALID_PARAMETER", InvalidLiteral, 400),
              draws |-> 0]
        ELSE IF content_type \notin {"word", "sentence", "paragraph"}
        THEN [ret |-> Json(create_response(<<>>, FALSE,
                        [code |-> "INVALID_TYPE",
                         message |-> "Type must be one of: word, sentence, paragraph",
                         details |-> [provided |-> content_type]]), 400),
              draws |-> 0]
        ELSE [ret |-> respond(out.ret, data, "INVALID_PARAMETER",
                              "GENERATION_ERROR", "Failed to generate text"),
              draws |-> out.draws]

\* the query strings of the text route: type and count, each given or not
TextQueries ==
    LET types == {"word", "sentence", "paragraph", "essay"}
        counts == {<<"1">>, <<"2">>, <<"0">>, <<" ", "3">>, <<"1", "_", "0">>,
                   <<"1", "0", "0", "1">>, <<"a">>, <<"-", "1">>, <<>>}
    IN  {<<>>} \cup {[type |-> t] : t \in types}
               \cup {[count |-> c] : c \in counts}
               \cup {[type |-> t, count |-> c] : t \in types, c \in counts}

ApiTextRandom ==
    /\ pc = "idle"
    /\ \E query \in TextQueries, words \in WordTapes, ints \in IntTapes :
        /\ op' = "/api/v1/text/random"
        /\ args' = query
        /\ ret' = text_random(query, words, ints).ret
        /\ draws' = text_random(query, words, ints).draws
        /\ _rng' = advance(_rng, text_random(query, words, ints).draws)
    /\ pc' = "done"
    /\ UNCHANGED <<charset, attempt, batch>>

\* the views health_check, api_info and get_hash_algorithms
ApiInfo ==
    /\ pc = "idle"
    /\ \E route \in {"/api/v1/health", "/api", "/api/v1/hash/algorithms"} :
        LET data ==
                CASE route = "/api/v1/health" ->
                        [status |-> "healthy", version |-> "1.0.0"]
                  [] route = "/api" ->
                        [name |-> "Random Toolbox API", version |-> "1.0.0",
                         documentation |-> "/api/docs"]
                  [] OTHER ->
                        [algorithms |-> SUPPORTED_ALGORITHMS,
                         count |-> Len(SUPPORTED_ALGORITHMS)]
        IN  /\ op' = route
            /\ ret' = Json(create_response(data, TRUE, <<>>), 200)
    /\ args' = <<>>
    /\ pc' = "done"
    /\ UNCHANGED <<charset, _rng, attempt, batch, draws>>

\* request.args.get(name, default).lower() == 'true'
flag(query, name, default) ==
    lower(args_get(query, name, default)) = <<"t", "r", "u", "e">>

\* the query strings of the password route
PasswordQueries ==
    LET lengths == {<<"8">>, <<"7">>, <<"x">>}
        symbols == {<<"T", "R", "U", "E">>, <<"n", "o">>}
    IN  {<<>>} \cup {[length |-> l] : l \in lengths}
               \cup {[length |-> l, symbols |-> s, lowercase |-> <<"0">>,
                      exclude_ambiguous |-> <<"t", "r", "u", "e">>] :
                        l \in lengths, s \in symbols}

\* the view generate_password of /api/v1/password/generate, from the request
\* to the head of the loop of generate_password
ApiPasswordGenerate ==
    /\ pc = "idle"
    /\ \E query \in PasswordQueries :
        LET length == int10(args_get(query, "length", <<"1", "6">>))
            yes == <<"t", "r", "u", "e">>
            no == <<"f", "a", "l", "s", "e">>
            a == [length |-> length.value,
                  uppercase |-> flag(query, "uppercase", yes),
                  lowercase |-> flag(query, "lowercase", yes),
                  numbers |-> flag(query, "numbers", yes),
                  symbols |-> flag(query, "symbols", no),
                  exclude_ambiguous |-> flag(query, "exclude_ambiguous", no),
                  ensure_requirements |-> TRUE]
        IN  IF ~length.ok
            THEN /\ op' = "/api/v1/password/generate"
                 /\ args' = query
                 /\ ret' = Failure("INVALID_PARAMETER", InvalidLiteral, 400)
                 /\ pc' = "done"
                 /\ UNCHANGED <<charset, _rng, attempt, batch, draws>>
            ELSE /\ op' = "generate_password"
                 /\ args' = a
                 /\ EnterPassword(a)

password_data(result) ==
    [password |-> result.password,
     metadata |-> [length |-> result.length,
                   entropy_bits |-> result.entropy_bits,
                   strength |-> result.strength,
                   config |-> result.config]]

\* the view generate_password, from the end of generate_password on
ApiPasswordRespond ==
    /\ pc = "done"
    /\ op = "generate_password"
    /\ op' = "/api/v1/password/generate"
    /\ ret' = respond(ret, password_data, "INVALID_PARAMETER",
                      "GENERATION_ERROR", "Failed to generate password")
    /\ UNCHANGED <<pc, args, charset, _rng, attempt, batch, draws>>

apikey_data(result) ==
    [api_key |-> result.api_key,
     metadata |-> [format |-> result.format,
                   length |-> result.length,
                   total_length |-> result.total_length,
                   prefix |-> result.prefix,
                   entropy_bits |-> result.entropy_bits,
                   security_level |-> result.security_level]]

\* the view generate_apikey of /api/v1/apikey/generate: the outcomes
apikey_generate(query) ==
    LET key_format == args_get(query, "format", "hex")
        length == int10(args_get(query, "length", <<"3", "2">>))
        a == [key_format |-> key_format,
              length |-> length.value,
              prefix |-> args_get(query, "prefix", <<>>),
              charset |-> IF "charset" \in DOMAIN query
                          THEN Some(query.charset) ELSE None]
    IN  IF ~length.ok
        THEN {[ret |-> Failure("INVALID_PARAMETER", InvalidLiteral, 400),
               draws |-> 0]}
        ELSE IF key_format \notin {"hex", "base64", "base58", "custom"}
        THEN {[ret |-> Json(create_response(<<>>, FALSE,
                        [code |-> "INVALID_FORMAT",
                         message |-> "Format must be one of: hex, base64, base58, custom",
                         details |-> [provided |-> key_format]]), 400),
               draws |-> 0]}
        ELSE {[ret |-> respond(out.ret, apikey_data, "INVALID_PARAMETER",
                               "GENERATION_ERROR", "Failed to generate API key"),
               draws |-> out.draws] : out \in generate(a)}

\* the query strings of the API key route
ApikeyQueries ==
    {<<>>, [format |-> "base58", length |-> <<"2">>],
     [format |-> "rsa"], [format |-> "rsa", length |-> <<"x">>],
     [length |-> <<"0">>], [length |-> <<"1", "6">>, prefix |-> <<"s", "k", "_">>],
     [format |-> "custom", length |-> <<"2">>],
     [format |-> "custom", length |-> <<"2">>, charset |-> <<"A", "7">>],
     [prefix |-> [i \in 1..(MaxPrefixLength + 1) |-> "l"]]}

ApiApikeyGenerate ==
    /\ pc = "idle"
    /\ \E query \in ApikeyQueries : \E out \in apikey_generate(query) :
        /\ args' = query
        /\ ret' = out.ret
        /\ draws' = out.draws
    /\ op' = "/api/v1/apikey/generate"
    /\ pc' = "done"
    /\ UNCHANGED <<charset, _rng, attempt, batch>>

hash_data(result) ==
    [hash |-> result.hash,
     metadata |-> [algorithm |-> result.algorithm,
                   input_length |-> result.input_length,
                   hash_length |-> result.hash_length,
                   encoding |-> result.encoding]]

\* the view generate_hash of /api/v1/hash/generate
hash_generate(query) ==
    LET text == args_get(query, "text", <<>>)
        algorithm == args_get(query, "algorithm",
                              <<"s", "h", "a", "2", "5", "6">>)
    IN  IF text = <<>>
        THEN Failure("MISSING_TEXT", "Text parameter is required", 400)
        ELSE respond(generate_hash(Str(text), algorithm), hash_data,
                     "INVALID_PARAMETER", "GENERATION_ERROR",
                     "Failed to generate hash")

\* the query strings of the hash route
HashQueries ==
    {<<>>} \cup {[text |-> t] : t \in TextsOver({97, 233}, 2)}
           \cup {[text |-> <<97>>, algorithm |-> n] : n \in AlgorithmNames}
           \cup {[algorithm |-> n] : n \in AlgorithmNames}

ApiHashGenerate ==
    /\ pc = "idle"
    /\ \E query \in HashQueries :
        /\ args' = query
        /\ ret' = hash_generate(query)
    /\ op' = "/api/v1/hash/generate"
    /\ pc' = "done"
    /\ UNCHANGED <<charset, _rng, attempt, batch, draws>>

uuid_data(result) ==
    [uuid |-> result.uuid,
     metadata |-> [version |-> result.version,
                   type |-> result.type,
                   description |-> result.description,
                   length |-> result.length,
                   format |-> result.format]]

\* the view generate_uuid of /api/v1/uuid/generate: the outcomes
uuid_generate(query) ==
    {[ret |-> respond(out.ret, uuid_data, "INVALID_PARAMETER",
                      "GENERATION_ERROR", "Failed to generate UUID"),
      draws |-> out.draws] :
        out \in generate_uuid(args_get(query, "version", <<"v", "4">>))}

ApiUuidGenerate ==
    /\ pc = "idle"
    /\ \E query \in {<<>>} \cup {[version |-> t] : t \in VersionTokens} :
        \E out \in uuid_generate(query) :
            /\ args' = query
            /\ ret' = out.ret
            /\ draws' = out.draws
    /\ op' = "/api/v1/uuid/generate"
    /\ pc' = "done"
    /\ UNCHANGED <<charset, _rng, attempt, batch>>

\* the view validate_uuid of /api/v1/uuid/validate
uuid_validate(query) ==
    LET uuid_string == args_get(query, "uuid", <<>>)
    IN  IF uuid_string = <<>>
        THEN Failure("MISSING_UUID", "UUID parameter is required", 400)
        ELSE respond(validate_uuid(Str(uuid_string)), LAMBDA result : result,
                     "VALIDATION_ERROR", "INTERNAL_ERROR",
                     "Failed to validate UUID")

ApiUuidValidate ==
    /\ pc = "idle"
    /\ \E query \in {<<>>} \cup {[uuid |-> s] : s \in UuidStrings} :
        /\ args' = query
        /\ ret' = uuid_validate(query)
    /\ op' = "/api/v1/uuid/validate"
    /\ pc' = "done"
    /\ UNCHANGED <<charset, _rng, attempt, batch, draws>>

\* the values of a field of a JSON object: strings ('QQ==', '%41', ''),
\* null, a number and a list
JsonValues ==
    {Str(<<81, 81, 61, 61>>), Str(<<37, 52, 49>>), Str(<<81>>), Str(<<>>),
     PyNone, PyInt(4), PyList(<<97>>)}

\* the bodies of a POST: none, one that is no JSON, the number 5, and
\* objects without and with the field name, and with a type beside it
JsonBodies(name) ==
    {[kind |-> k, fields |-> <<>>] : k \in {"none", "invalid", "number", "object"}}
    \cup {[kind |-> "object", fields |-> ("other" :> Str(<<81>>))]}
    \cup {[kind |-> "object", fields |-> (name :> v)] : v \in JsonValues}
    \cup {[kind |-> "object",
           fields |-> (name :> Str(<<37, 52, 49>>)) @@ ("type" :> t)] :
            t \in {plus, auto, <<"h", "e", "x">>}}

\* data = request.get_json(), the test  not data or name not in data, and
\* data[name]: the field is missing, or an exception that is no ValueError
\* is raised (fault), or the field has a value.  Without a JSON body
\* get_json returns None or raises, as the version of the framework has it.
json_field(body, name) ==
    CASE body.kind = "none" -> {"missing", "fault"}
      [] body.kind = "invalid" -> {"fault"}
      [] body.kind = "number" -> {"fault"}
      [] body.kind = "object" ->
            IF name \in DOMAIN body.fields THEN {"value"} ELSE {"missing"}

\* a view of a utility: the responses to the body, result(value) being the
\* response for the value of the field
json_view(body, name, missing, failed, result(_)) ==
    {CASE tag = "missing" ->
            Failure(missing, "JSON body with the field is required", 400)
       [] tag = "fault" -> Failure("INTERNAL_ERROR", failed, 500)
       [] tag = "value" -> result(body.fields[name]) :
        tag \in json_field(body, name)}

\* the views encode_base64 and decode_base64: the responses
base64_view(method, body) ==
    LET encoded(r) ==
            [encoded |-> r.encoded,
             metadata |-> [original_length |-> r.original_length,
                           encoded_length |-> r.encoded_length,
                           padding_chars |-> r.padding_chars]]
        decoded(r) ==
            [decoded |-> r.decoded,
             metadata |-> [encoded_length |-> r.encoded_length,
                           decoded_length |-> r.decoded_length,
                           padding_chars |-> r.padding_chars]]
    IN  IF method = "encode"
        THEN json_view(body, "text", "MISSING_TEXT", "Failed to encode Base64",
                LAMBDA text : respond(Base64Utility(method, text), encoded,
                                      "ENCODING_ERROR", "INTERNAL_ERROR",
                                      "Failed to encode Base64"))
        ELSE json_view(body, "encoded", "MISSING_ENCODED",
                "Failed to decode Base64",
                LAMBDA text : respond(Base64Utility(method, text), decoded,
                                      "DECODING_ERROR", "INTERNAL_ERROR",
                                      "Failed to decode Base64"))

\* the views encode_url and decode_url: the responses
url_view(method, body) ==
    LET encoded(r) ==
            [encoded |-> r.encoded,
             metadata |-> [encoding_type |-> r.encoding_type,
                           original_length |-> r.original_length,
                           encoded_length |-> r.encoded_length,
                           characters_encoded |-> r.characters_encoded]]
        decoded(r) ==
            [decoded |-> r.decoded,
             metadata |-> [decoding_type |-> r.decoding_type,
                           encoded_length |-> r.encoded_length,
                           decoded_length |-> r.decoded_length,
                           characters_decoded |-> r.characters_decoded]]
        type(default) == args_get(body.fields, "type", default)
    IN  IF method = "encode"
        THEN json_view(body, "text", "MISSING_TEXT", "Failed to encode URL",
                LAMBDA text : respond(URLUtility(method, text, type(standard)),
                                      encoded, "ENCODING_ERROR",
                                      "INTERNAL_ERROR", "Failed to encode URL"))
        ELSE json_view(body, "encoded", "MISSING_ENCODED",
                "Failed to decode URL",
                LAMBDA text : respond(URLUtility(method, text, type(auto)),
                                      decoded, "DECODING_ERROR",
                                      "INTERNAL_ERROR", "Failed to decode URL"))

FieldOf(method) == IF method = "encode" THEN "text" ELSE "encoded"

ApiBase64 ==
    /\ pc = "idle"
    /\ \E method \in {"encode", "decode"} :
        \E body \in JsonBodies(FieldOf(method)) :
            /\ op' = "/api/v1/base64/" \o method
            /\ args' = body
            /\ ret' \in base64_view(method, body)
    /\ pc' = "done"
    /\ UNCHANGED <<charset, _rng, attempt, batch, draws>>

ApiUrl ==
    /\ pc = "idle"
    /\ \E method \in {"encode", "decode"} :
        \E body \in JsonBodies(FieldOf(method)) :
            /\ op' = "/api/v1/url/" \o method
            /\ args' = body
            /\ ret' \in url_view(method, body)
    /\ pc' = "done"
    /\ UNCHANGED <<charset, _rng, attempt, batch, draws>>

\* the view swagger_spec of /api/swagger.yaml: the file of the docs
\* directory, or, the file missing, jsonify({"error": ...}) with 404
ApiSwagger ==
    /\ pc = "idle"
    /\ op' = "/api/swagger.yaml"
    /\ args' = <<>>
    /\ ret' \in {[status |-> "response", code |-> 200,
                  mimetype |-> "application/yaml",
                  body |-> [file |-> "api-swagger.yaml"]],
                 Json([error |-> "Swagger specification not found"], 404)}
    /\ pc' = "done"
    /\ UNCHANGED <<charset, _rng, attempt, batch, draws>>

\* a request no route matches: no handler is registered for 404 or 405, so
\* the page of the framework is the response
ApiNoRoute ==
    /\ pc = "idle"
    /\ \E miss \in {[path |-> "/api/v1/nonexistent", method |-> "GET", code |-> 404],
                     [path |-> "/api/v1/base64/encode", method |-> "GET", code |-> 405]} :
        /\ op' = miss.path
        /\ args' = [method |-> miss.method]
        /\ ret' = [status |-> "response", code |-> miss.code,
                   mimetype |-> "text/html",
                   body |-> [html |-> "<!doctype html>"]]
    /\ pc' = "done"
    /\ UNCHANGED <<charset, _rng, attempt, batch, draws>>

---------------------------------------------------------------------------
(* generate_base58 called by itself *)

\* the lengths the model calls generate_base58 with
Base58CallLengths == {0, 1, 2, 3, 4, 6, 32, MaxKeyBytes + 1}

\* APIKeyGenerator.generate_base58(length); the bytes secrets.token_bytes
\* returned are kept beside the argument
GenerateBase58 ==
    /\ pc = "idle"
    /\ \E length \in Base58CallLengths :
        IF length <= 0 \/ length > MaxKeyBytes
        THEN /\ args' = [length |-> length]
             /\ ret' = Raise("ValueError", "Length must be between 1 and 128 bytes")
             /\ draws' = 0
        ELSE \E random_bytes \in token_bytes(length) :
                /\ args' = [length |-> length, random_bytes |-> random_bytes]
                /\ ret' = Ok(base58(random_bytes))
                /\ draws' = length
    /\ op' = "generate_base58"
    /\ pc' = "done"
    /\ UNCHANGED <<charset, _rng, attempt, batch>>

---------------------------------------------------------------------------
(* A call made again with the arguments of the call before it *)

\* what a call ended in: its success, or the exception it raised
Outcome(r) ==
    IF r.status = "ok" THEN [status |-> "ok"]
    ELSE [status |-> "error", kind |-> r.kind, message |-> r.message]

\* generate_password has raised and is called again with the same
\* arguments; the outcome of the first call is kept beside them
RetryPassword ==
    /\ pc = "done"
    /\ op = "generate_password"
    /\ ret.status = "error"
    /\ "previous" \notin DOMAIN args
    /\ args' = args @@ ("previous" :> Outcome(ret))
    /\ EnterPassword(args)
    /\ UNCHANGED op

\* the same of APIKeyGenerator.generate
RetryApiKey ==
    /\ pc = "done"
    /\ op = "generate_api_key"
    /\ ret.status = "error"
    /\ "previous" \notin DOMAIN args
    /\ args' = args @@ ("previous" :> Outcome(ret))
    /\ \E out \in generate(args) :
        /\ ret' = out.ret
        /\ draws' = out.draws
    /\ UNCHANGED <<pc, op, charset, _rng, attempt, batch>>

\* the same of generate_uuid
RetryUuid ==
    /\ pc = "done"
    /\ op = "generate_uuid"
    /\ ret.status = "error"
    /\ "previous" \notin DOMAIN args
    /\ args' = args @@ ("previous" :> Outcome(ret))
    /\ \E out \in generate_uuid(args.version) :
        /\ ret' = out.ret
        /\ draws' = out.draws
    /\ UNCHANGED <<pc, op, charset, _rng, attempt, batch>>

\* the same of TextGenerator.generate
RetryText ==
    /\ pc = "done"
    /\ op = "generate_text"
    /\ ret.status = "error"
    /\ "previous" \notin DOMAIN args
    /\ args' = args @@ ("previous" :> Outcome(ret))
    /\ \E words \in WordTapes, ints \in IntTapes :
        LET out == generate_text(args.content_type, args.count, words, ints) IN
        /\ ret' = out.ret
        /\ draws' = out.draws
        /\ _rng' = advance(_rng, out.draws)
    /\ UNCHANGED <<pc, op, charset, attempt, batch>>

---------------------------------------------------------------------------
\* the call has returned or raised; the object is ready for the next call
Return ==
    /\ pc = "done"
    /\ pc' = "idle"
    /\ op' = "none"
    /\ args' = <<>>
    /\ charset' = <<>>
    /\ UNCHANGED _rng
    /\ attempt' = 0
    /\ batch' = <<>>
    /\ draws' = 0
    /\ ret' = NoRet

Init ==
    /\ pc = "idle"
    /\ op = "none"
    /\ args = <<>>
    /\ charset = <<>>
    /\ attempt = 0
    /\ batch = <<>>
    /\ draws = 0
    /\ ret = NoRet
    /\ _rng = Seeded

Next ==
    \/ GeneratePassword
    \/ GenerateMultiplePasswords
    \/ PasswordAttempt
    \/ PasswordExhausted
    \/ GenerateApiKey
    \/ GenerateMultipleApiKeys
    \/ ApiKeyStep
    \/ GenerateText
    \/ GenerateUuid
    \/ GenerateMultipleUuids
    \/ UuidStep
    \/ Return

\* the generators
Spec == Init /\ [][Next]_vars

NextBase64 ==
    \/ Base64Encode
    \/ Base64Decode
    \/ Base64RoundTrip
    \/ Return

\* the Base64 utility
SpecBase64 == Init /\ [][NextBase64]_vars

NextUrl ==
    \/ UrlEncode
    \/ UrlDecode
    \/ UrlRoundTrip
    \/ Return

\* the URL utility
SpecUrl == Init /\ [][NextUrl]_vars

NextUrlAuto ==
    \/ UrlEncode
    \/ UrlRoundTripAuto
    \/ Return

\* URL encode, and decode of what it returned with the type auto
SpecUrlAuto == Init /\ [][NextUrlAuto]_vars

NextHash ==
    \/ GenerateHash
    \/ GenerateMultipleHashes
    \/ Return

\* the hash generator
SpecHash == Init /\ [][NextHash]_vars

NextInputs ==
    \/ GenerateHash
    \/ GenerateMultipleHashes
    \/ GenerateUuidOf
    \/ ValidateUuid
    \/ ValidateGenerated
    \/ Base64Call
    \/ UrlCall
    \/ Return

\* every operation that takes a text, called with values of any type
SpecInputs == Init /\ [][NextInputs]_vars

NextValidate ==
    \/ Base64Decode
    \/ Base64Validate
    \/ UrlDecode
    \/ UrlValidate
    \/ Return

\* decode and validate of the two utilities, on the same texts
SpecValidate == Init /\ [][NextValidate]_vars

NextText ==
    \/ GenerateText
    \/ ApiTextRandom
    \/ Return

\* the text generator and its route
SpecText == Init /\ [][NextText]_vars

NextApi ==
    \/ ApiInfo
    \/ ApiTextRandom
    \/ ApiPasswordGenerate
    \/ PasswordAttempt
    \/ PasswordExhausted
    \/ ApiPasswordRespond
    \/ ApiApikeyGenerate
    \/ ApiHashGenerate
    \/ ApiUuidGenerate
    \/ ApiUuidValidate
    \/ ApiBase64
    \/ ApiUrl
    \/ ApiSwagger
    \/ ApiNoRoute
    \/ Return

\* the HTTP API: a request, the operation it calls, the response
SpecApi == Init /\ [][NextApi]_vars

NextRetry ==
    \/ GeneratePassword
    \/ PasswordAttempt
    \/ PasswordExhausted
    \/ RetryPassword
    \/ GenerateApiKey
    \/ RetryApiKey
    \/ GenerateText
    \/ RetryText
    \/ GenerateUuid
    \/ RetryUuid
    \/ Return

\* the generators, a call that failed being made a second time
SpecRetry == Init /\ [][NextRetry]_vars

NextBase58 ==
    \/ GenerateBase58
    \/ Return

\* generate_base58 by itself
SpecBase58 == Init /\ [][NextBase58]_vars

---------------------------------------------------------------------------
(* The claims about the generators, checked under Spec *)

PasswordReturned == pc = "done" /\ op = "generate_password" /\ ret.status = "ok"
ApiKeyReturned == pc = "done" /\ op = "generate_api_key" /\ ret.status = "ok"

HasCharOf(str, class) == \E i \in DOMAIN str : str[i] \in Range(class)
OutOfRange(x, lo, hi) == x < lo \/ x > hi

\* the encoded body of a returned API key: the key after its prefix
KeyBody(r) == SubSeq(r.api_key, Len(r.prefix) + 1, Len(r.api_key))

AllClassesPresent(password, cfg) ==
    /\ cfg.uppercase => HasCharOf(password, UPPERCASE)
    /\ cfg.lowercase => HasCharOf(password, LOWERCASE)
    /\ cfg.numbers => HasCharOf(password, NUMBERS)
    /\ cfg.symbols => HasCharOf(password, SYMBOLS)

\* C1: a password returned by generate_password with ensure_requirements
\* holds at least one character of every enabled class, whatever the length,
\* the classes and exclude_ambiguous; so does every password of the list
\* generate_multiple returns.
C1_EnabledClassesPresent ==
    /\ (PasswordReturned /\ args.ensure_requirements)
          => AllClassesPresent(ret.value.password, args)
    /\ (pc = "done" /\ op = "generate_multiple_passwords" /\ ret.status = "ok"
        /\ args.kwargs.ensure_requirements)
          => \A i \in DOMAIN ret.value :
                AllClassesPresent(ret.value[i].password, args.kwargs)

\* C1's case: four classes enabled, ambiguous characters excluded, and the
\* returned password is not the first attempt
C1_Witness ==
    /\ PasswordReturned
    /\ args.ensure_requirements /\ args.exclude_ambiguous
    /\ args.uppercase /\ args.lowercase /\ args.numbers /\ args.symbols
    /\ attempt > 0

\* C2: generate_password makes at most 100 attempts.  It has drawn one
\* password per attempt made; while in its loop it can always go on; it ends
\* in the RuntimeError only after 100 failed attempts, and what it returns
\* is one of the first 100 attempts and meets the requirements it was asked for.
C2_AtMostHundredAttempts ==
    op = "generate_password" =>
        /\ attempt <= 100
        /\ draws = args.length * (IF pc = "done" /\ ret.status = "ok"
                                  THEN attempt + 1 ELSE attempt)
        /\ pc = "password_loop" => ENABLED (PasswordAttempt \/ PasswordExhausted)
        /\ (pc = "done" /\ ret.status = "error" /\ ret.kind = "RuntimeError")
              => attempt = 100
        /\ (pc = "done" /\ ret.status = "ok")
              => /\ attempt < 100
                 /\ Len(ret.value.password) = args.length
                 /\ args.ensure_requirements
                       => AllClassesPresent(ret.value.password, args)

\* C2's case: all 100 attempts failed and the call ended in the error
C2_Witness ==
    /\ pc = "done" /\ op = "generate_password"
    /\ ret.status = "error" /\ ret.kind = "RuntimeError"
    /\ attempt = 100 /\ draws = 100 * args.length

\* the calls C5 is about: a length or count out of range, or a format,
\* version or type outside the allowed set
C5_BadPassword(kw) == OutOfRange(kw.length, 8, 128)
C5_BadApiKey(kw) ==
    \/ kw.key_format \notin {"hex", "base64", "base58", "custom"}
    \/ kw.key_format = "custom" /\ OutOfRange(kw.length, 1, 256)
    \/ kw.key_format # "custom" /\ OutOfRange(kw.length, 1, 128)
C5_BadVersion(token) ==
    strip(lower(token)) \notin {<<"1">>, <<"v", "1">>, <<"4">>, <<"v", "4">>}
C5_BadText(a) ==
    \/ a.content_type \notin {"word", "sentence", "paragraph"}
    \/ a.content_type = "word" /\ OutOfRange(a.count, 1, 1000)
    \/ a.content_type = "sentence" /\ OutOfRange(a.count, 1, 100)
    \/ a.content_type = "paragraph" /\ OutOfRange(a.count, 1, 50)
C5_BadCall ==
    CASE op = "generate_password" -> C5_BadPassword(args)
      [] op = "generate_multiple_passwords" ->
            OutOfRange(args.count, 1, 100) \/ C5_BadPassword(args.kwargs)
      [] op = "generate_api_key" -> C5_BadApiKey(args)
      [] op = "generate_multiple_api_keys" ->
            OutOfRange(args.count, 1, 50) \/ C5_BadApiKey(args.kwargs)
      [] op = "generate_text" -> C5_BadText(args)
      [] op = "generate_uuid" -> C5_BadVersion(args.version)
      [] op = "generate_multiple_uuids" ->
            OutOfRange(args.count, 1, 100) \/ C5_BadVersion(args.version)
      [] OTHER -> FALSE

\* C5: a generation call with a length or count out of range, or with a
\* format, version or type that is not allowed, draws nothing from the random
\* source, builds no partial result, and ends in an error.
C5_RejectedBeforeAnyDraw ==
    C5_BadCall =>
        /\ draws = 0
        /\ batch = <<>>
        /\ pc = "done" => ret.status = "error"

\* C5's case: generate_multiple with a good count whose generate is then
\* refused for its format
C5_Witness ==
    /\ pc = "done" /\ op = "generate_multiple_api_keys"
    /\ args.count = 2 /\ args.kwargs.key_format = "rsa"
    /\ ret.status = "error" /\ draws = 0

\* C6 as claimed: no password generated with exclude_ambiguous and no
\* base58 key body holds any of 0, O, 1, I, l.
C6_NoAmbiguousCharacter ==
    /\ (PasswordReturned /\ args.exclude_ambiguous)
          => \A i \in DOMAIN ret.value.password :
                ret.value.password[i] \notin {"0", "O", "1", "I", "l"}
    /\ (ApiKeyReturned /\ args.key_format = "base58")
          => \A i \in DOMAIN KeyBody(ret.value) :
                KeyBody(ret.value)[i] \notin {"0", "O", "1", "I", "l"}

\* C6, amended: no password generated with exclude_ambiguous holds any of
\* 0, O, 1, I, l, and no base58 key body holds any of 0, O, I, l; a base58
\* key can hold 1, the first symbol of its alphabet.
C6_NoAmbiguousExceptOneInBase58 ==
    /\ (PasswordReturned /\ args.exclude_ambiguous)
          => \A i \in DOMAIN ret.value.password :
                ret.value.password[i] \notin {"0", "O", "1", "I", "l"}
    /\ (ApiKeyReturned /\ args.key_format = "base58")
          => \A i \in DOMAIN KeyBody(ret.value) :
                KeyBody(ret.value)[i] \notin {"0", "O", "I", "l"}

\* C6's case: a base58 key of 24 bytes that holds a 1 behind its prefix
C6_Witness ==
    /\ ApiKeyReturned /\ args.key_format = "base58" /\ args.length = 24
    /\ args.prefix # <<>>
    /\ \E i \in DOMAIN KeyBody(ret.value) : KeyBody(ret.value)[i] = "1"

\* C7 as claimed: generate with key_format 'custom', a length in 1..256 and
\* no charset succeeds and returns a key of `length` characters of A-Z, a-z, 0-9.
C7_CustomDefaultSucceeds ==
    (pc = "done" /\ op = "generate_api_key" /\ args.key_format = "custom"
     /\ args.charset.isNone /\ ~OutOfRange(args.length, 1, 256)
     /\ Len(args.prefix) <= 20)
        => /\ ret.status = "ok"
           /\ Len(KeyBody(ret.value)) = args.length
           /\ \A i \in DOMAIN KeyBody(ret.value) :
                KeyBody(ret.value)[i]
                    \in Range(ascii_uppercase) \cup Range(ascii_lowercase)
                        \cup Range(digits)

\* C8 as claimed: custom generation with a charset succeeds exactly when
\* the charset holds at least 2 distinct characters.
C8_TwoDistinctCharacters ==
    (pc = "done" /\ op = "generate_api_key" /\ args.key_format = "custom"
     /\ ~args.charset.isNone /\ ~OutOfRange(args.length, 1, 256)
     /\ Len(args.prefix) <= 20)
        => (ret.status = "ok" <=> Cardinality(Range(args.charset.str)) >= 2)

\* C9: a generate call with a prefix of more than 20 characters fails; a
\* returned api_key is the prefix followed by the body, length is the length
\* of the body and total_length that of the whole key; a hex body has
\* 2*length characters and a base64 body ceil(4*length/3) characters of the
\* URL-safe alphabet, none of them '='.
C9_KeyLayout ==
    /\ (pc = "done" /\ op = "generate_api_key" /\ Len(args.prefix) > 20)
          => ret.status = "error"
    /\ ApiKeyReturned =>
          /\ ret.value.prefix = args.prefix
          /\ SubSeq(ret.value.api_key, 1, Len(args.prefix)) = args.prefix
          /\ Len(ret.value.api_key) = Len(args.prefix) + ret.value.length
          /\ ret.value.total_length = ret.value.length + Len(args.prefix)
          /\ args.key_format = "hex" =>
                /\ ret.value.length = 2 * args.length
                /\ \A i \in DOMAIN KeyBody(ret.value) :
                      KeyBody(ret.value)[i] \in Range(HexDigits)
          /\ args.key_format = "base64" =>
                /\ ret.value.length = (4 * args.length + 2) \div 3
                /\ \A i \in DOMAIN KeyBody(ret.value) :
                      KeyBody(ret.value)[i]
                        \in Range(ascii_uppercase) \cup Range(ascii_lowercase)
                            \cup Range(digits) \cup {"-", "_"}

\* C9's case: base64, prefix sk_, 24 bytes: a body of 32 characters
C9_Witness ==
    /\ ApiKeyReturned /\ args.key_format = "base64" /\ args.length = 24
    /\ args.prefix = <<"s", "k", "_">>
    /\ ret.value.length = 32 /\ ret.value.total_length = 35

\* the security level of a whole number of bits, as the claim states it
C10_Level(bits) ==
    IF bits >= 256 THEN "military_grade"
    ELSE IF bits >= 128 THEN "very_strong"
    ELSE IF bits >= 80 THEN "strong"
    ELSE IF bits >= 64 THEN "adequate"
    ELSE "weak"

\* C10: a returned hex key reports length*4 bits of entropy and a base64 key
\* length*6 (entropy_bits is in hundredths of a bit), whatever the prefix,
\* and the security level is the one the thresholds 256, 128, 80, 64 give.
C10_EntropyAndLevel ==
    /\ (ApiKeyReturned /\ args.key_format = "hex") =>
          /\ ret.value.entropy_bits = 100 * (4 * args.length)
          /\ ret.value.security_level = C10_Level(4 * args.length)
    /\ (ApiKeyReturned /\ args.key_format = "base64") =>
          /\ ret.value.entropy_bits = 100 * (6 * args.length)
          /\ ret.value.security_level = C10_Level(6 * args.length)

\* C10's case: a hex key of 16 bytes with a prefix: exactly 64 bits, adequate
C10_Witness ==
    /\ ApiKeyReturned /\ args.key_format = "hex" /\ args.length = 16
    /\ args.prefix # <<>>
    /\ ret.value.entropy_bits = 6400 /\ ret.value.security_level = "adequate"

---------------------------------------------------------------------------
(* The claims about the utilities *)

\* C3: under SpecBase64, whatever non-empty text was encoded (characters
\* of 1 to 4 bytes of UTF-8, texts of 1 byte and more), decode of the encoded
\* text succeeds and its decoded text is the text that was encoded.
C3_Base64RoundTrip ==
    (pc = "done" /\ op = "base64_roundtrip") =>
        /\ ret.status = "ok"
        /\ ret.value.decoded = args.text

\* C3's case: a text of characters of 2, 3 and 4 bytes has made the round trip
C3_Witness ==
    /\ pc = "done" /\ op = "base64_roundtrip"
    /\ args.text = <<233, 8364, 128512>>
    /\ Len(args.encoded_text) = 12
    /\ ret.status = "ok" /\ ret.value.bytes_decoded = 9

\* C4: under SpecUrl, whatever non-empty text was encoded with the type
\* standard or plus, decode of the encoded text with the same type succeeds
\* and its decoded text is the text that was encoded.
C4_UrlRoundTrip ==
    (pc = "done" /\ op = "url_roundtrip"
     /\ args.encoding_type \in {standard, plus}) =>
        /\ ret.status = "ok"
        /\ ret.value.decoded = args.text

\* C4's case: the text '+ %' has made the round trip of the type plus
C4_Witness ==
    /\ pc = "done" /\ op = "url_roundtrip"
    /\ args.encoding_type = plus
    /\ args.text = <<43, 32, 37>>
    /\ args.encoded_text = <<37, 50, 66, 43, 37, 50, 53>>
    /\ ret.status = "ok" /\ ret.value.decoded = <<43, 32, 37>>

---------------------------------------------------------------------------
(* The claims about the hash generator, checked under SpecHash *)

\* a name generate_hash takes for one of its twelve algorithms
C11_Supported(name) == strip(lower(name)) \in Range(SUPPORTED_ALGORITHMS)

\* C11: generate_multiple_hashes of a text and a list of algorithm names
\* returns; its hashes hold an entry for every name of the list and no
\* other, a hash with its length for every supported name and an error for
\* every other name, and the entries of the supported names are those of the
\* call with the unsupported names taken out of the list.
C11_OneBadAlgorithmDoesNotAbort ==
    (pc = "done" /\ op = "generate_multiple_hashes"
     /\ isinstance_str(args.text) /\ ~args.algorithms.isNone) =>
        LET names == args.algorithms.str
            kept == SelectSeq(names, C11_Supported)
            alone == generate_multiple_hashes(args.text, Some(kept))
        IN  /\ ret.status = "ok"
            /\ DOMAIN ret.value.hashes = Range(names)
            /\ ret.value.algorithms_used = names
            /\ \A n \in Range(names) :
                IF C11_Supported(n)
                THEN /\ DOMAIN ret.value.hashes[n] = {"hash", "hash_length"}
                     /\ ret.value.hashes[n].hash_length
                            = Len(ret.value.hashes[n].hash)
                     /\ ret.value.hashes[n].hash_length > 0
                     /\ ret.value.hashes[n] = alone.value.hashes[n]
                ELSE DOMAIN ret.value.hashes[n] = {"error"}

\* C11's case: an unsupported name before and one after a supported one
C11_Witness ==
    /\ pc = "done" /\ op = "generate_multiple_hashes"
    /\ args.text = Str(<<97, 233>>)
    /\ ~args.algorithms.isNone
    /\ args.algorithms.str = <<<<"c", "r", "c", "3", "2">>, <<"m", "d", "5">>, <<>>>>
    /\ ret.status = "ok"
    /\ ret.value.hashes[<<"m", "d", "5">>].hash_length = 32

---------------------------------------------------------------------------
(* The claims about the arguments, checked under SpecInputs *)

\* the argument that has to be a text, of the call that has ended
TextArgument ==
    CASE op \in {"generate_hash", "generate_multiple_hashes",
                 "base64_encode", "base64_decode",
                 "url_encode", "url_decode"} -> args.text
      [] op = "validate_uuid" -> args.uuid_string
      [] op = "generate_uuid" -> args.version

\* C12: an operation called with a text argument that is not a string fails:
\* it returns no success record
C12_NonStringFails ==
    (pc = "done" /\ ~isinstance_str(TextArgument)) => ret.status = "error"

\* C12: generate_uuid called with the int 4 has returned a V4 record
C12_IntVersionAccepted ==
    /\ pc = "done"
    /\ op = "generate_uuid"
    /\ args.version.type = "int"
    /\ args.version.value = <<4>>
    /\ ret.status = "ok"
    /\ ret.value.version = <<"V", "4">>

\* C12: generate_multiple_hashes called with a list as text has returned a
\* success record
C12_ListTextAccepted ==
    /\ pc = "done"
    /\ op = "generate_multiple_hashes"
    /\ args.text = PyList(<<97>>)
    /\ ret.status = "ok"
    /\ ret.value.input_length = 1

---------------------------------------------------------------------------
(* The claims about malformed input, checked under SpecValidate and
   SpecBase64 *)

\* the three ways a text is not in the Base64 format: after the whitespace
\* is taken out, a length that is no multiple of 4, a character outside
\* A-Za-z0-9+/=, or a '=' that is not in a suffix '=' or '=='
MalformedBase64(text) ==
    LET t == SelectSeq(text, LAMBDA c : ~IsSpace(c))
        alphabet == (65..90) \cup (97..122) \cup (48..57) \cup {43, 47, 61}
    IN  \/ Len(t) % 4 # 0
        \/ \E i \in DOMAIN t : t[i] \notin alphabet
        \/ \E i \in DOMAIN t :
              t[i] = 61 /\ (i < Len(t) - 1 \/ \E j \in i..Len(t) : t[j] # 61)

\* a '%' that is not followed by two hexadecimal digits
MalformedPercent(text) ==
    LET hexdigits == (48..57) \cup (65..70) \cup (97..102)
    IN  \E i \in DOMAIN text :
            /\ text[i] = 37
            /\ ~(i + 2 <= Len(text) /\ text[i + 1] \in hexdigits
                                     /\ text[i + 2] \in hexdigits)

\* validate has returned a record with is_valid = false
ReportsInvalid == ret.status = "ok" /\ ~ret.value.is_valid

\* C13: on a malformed text (malformed Base64, or a '%' not followed by two
\* hexadecimal digits) decode fails with an error, and validate raises
\* nothing and returns a record with is_valid = false
C13_DecodeFailsValidateReports ==
    pc = "done" =>
        /\ op = "base64_decode" /\ MalformedBase64(args.encoded_text)
            => ret.status = "error"
        /\ op = "url_decode" /\ MalformedPercent(args.encoded_text)
            => ret.status = "error"
        /\ op = "base64_validate" /\ isinstance_str(args.text)
              /\ MalformedBase64(args.text.value)
            => ReportsInvalid
        /\ op = "url_validate" /\ isinstance_str(args.text)
              /\ MalformedPercent(args.text.value)
            => ReportsInvalid

\* C13: URL decode called with the text '%' has returned it decoded
C13_MalformedPercentDecoded ==
    /\ pc = "done"
    /\ op = "url_decode"
    /\ args.encoded_text = <<37>>
    /\ ret.status = "ok"
    /\ ret.value.decoded = <<37>>

\* C13: what holds of the claim: all of it but the failure of URL decode
C13_AllButUrlDecode ==
    pc = "done" /\ op # "url_decode" => C13_DecodeFailsValidateReports

\* C14: Base64 decode fails with the error of the Base64 format exactly when
\* the text, its whitespace taken out, has a length that is no multiple of 4,
\* a character outside A-Za-z0-9+/= or a '=' outside a suffix '=' or '==';
\* every other failure has another message
C14_FormatErrorIffMalformed ==
    pc = "done" /\ op = "base64_decode" =>
        /\ (ret.status = "error" /\ ret.message = "Invalid Base64 format")
            <=> MalformedBase64(args.encoded_text)
        /\ ret.status = "error" /\ ~MalformedBase64(args.encoded_text)
            => ret.message \in {"Input text cannot be empty",
                                "Error decoding Base64",
                                "Decoded bytes are not valid UTF-8 text"}

\* C14: decode has rejected 'Q=QQ', whose '=' is not in a suffix, with the
\* error of the format
C14_Witness ==
    /\ pc = "done"
    /\ op = "base64_decode"
    /\ args.encoded_text = <<81, 61, 81, 81>>
    /\ ret.status = "error"
    /\ ret.message = "Invalid Base64 format"

\* C14: decode has rejected '/w==', the byte FF, with the error of UTF-8
C14_NotUtf8 ==
    /\ pc = "done"
    /\ op = "base64_decode"
    /\ args.encoded_text = <<47, 119, 61, 61>>
    /\ ret.status = "error"
    /\ ret.message = "Decoded bytes are not valid UTF-8 text"

---------------------------------------------------------------------------
(* The claims about the UUIDs, checked under Spec and SpecInputs *)

UuidReturned == pc = "done" /\ op = "generate_uuid" /\ ret.status = "ok"

\* the places of the hyphens in 8-4-4-4-12
HyphenAt == {9, 14, 19, 24}

\* a string of 36 characters, lower-case hexadecimal digits in the groups
\* 8-4-4-4-12 with a hyphen between them
Canonical(str) ==
    /\ Len(str) = 36
    /\ \A i \in 1..36 :
          IF i \in HyphenAt THEN str[i] = "-" ELSE str[i] \in Range(HexDigits)

\* the six entries of the fields record
FieldsOf(f) ==
    {f.time_low, f.time_mid, f.time_hi_version, f.clock_seq_hi_variant,
     f.clock_seq_low, f.node}

\* C15: a result of generate_uuid has a canonical string of 36 characters,
\* the requested version in its version digit, the RFC 4122 variant,
\* is_nil = false, a hex form of 32 digits that is the string without its
\* hyphens, and six fields that are all null for v4 and all set for v1
C15_GeneratedUuidShape ==
    UuidReturned =>
        LET r == ret.value
            requested == normalize_version(args.version)
        IN  /\ Canonical(r.uuid)
            /\ r.length = 36
            /\ requested \in {<<"v", "1">>, <<"v", "4">>}
            /\ r.uuid[15] = requested[2]
            /\ r.uuid[20] \in {"8", "9", "a", "b"}
            /\ r.metadata.variant = "RFC 4122 variant"
            /\ ~r.metadata.is_nil
            /\ Len(r.metadata.hex) = 32
            /\ r.metadata.hex = SelectSeq(r.uuid, LAMBDA c : c # "-")
            /\ IF requested = <<"v", "4">>
               THEN \A x \in FieldsOf(r.metadata.fields) : x.isNone
               ELSE \A x \in FieldsOf(r.metadata.fields) : ~x.isNone

\* C15: generate_uuid has returned a version 1 UUID
C15_Witness ==
    /\ UuidReturned
    /\ args.version = <<"1">>
    /\ ret.value.uuid[15] = "1"
    /\ ~ret.value.metadata.fields.node.isNone

\* the call of generate_uuid, or of generate_multiple_uuids with a count in
\* its range, has ended
UuidCallEnded ==
    /\ pc = "done"
    /\ \/ op = "generate_uuid"
       \/ op = "generate_multiple_uuids" /\ args.count \in 1..MaxUuidCount

\* C16: for an accepted version token generate_uuid and
\* generate_multiple_uuids report the normalized tag, V1 or V4, and its type;
\* for every other token they fail with the unsupported-version error
C16_NormalizedVersionReported ==
    UuidCallEnded =>
        LET requested == normalize_version(args.version)
        IN  IF requested = <<>>
            THEN ret.status = "error" /\ ret.message = "Unsupported UUID version"
            ELSE /\ ret.status = "ok"
                 /\ ret.value.version = upper(requested)
                 /\ ret.value.type = IF requested = <<"v", "1">>
                                     THEN "Time-based UUID" ELSE "Random UUID"

\* C16: generate_multiple_uuids called with the token '1' has returned the
\* version '1' and the type Unknown
C16_RawVersionReported ==
    /\ pc = "done"
    /\ op = "generate_multiple_uuids"
    /\ args.version = <<"1">>
    /\ ret.status = "ok"
    /\ ret.value.version = <<"1">>
    /\ ret.value.type = "Unknown"

\* C16: what holds of the claim: generate_uuid reports the normalized tag
C16_GenerateUuidNormalizes ==
    op = "generate_uuid" => C16_NormalizedVersionReported

\* validate_uuid, called with a string that does not parse as a UUID, has
\* ended
UnparsedValidated ==
    /\ pc = "done"
    /\ op = "validate_uuid"
    /\ isinstance_str(args.uuid_string)
    /\ ~UUID(strip(args.uuid_string.value)).ok

\* C17: for a string that does not parse as a UUID validate_uuid raises
\* nothing and returns is_valid = false, the error of the parse, suggestions,
\* and as input the string it was called with, untrimmed
C17_InvalidReportedWithInput ==
    UnparsedValidated =>
        /\ ret.status = "ok"
        /\ ~ret.value.is_valid
        /\ ret.value.error = UUID(strip(args.uuid_string.value)).error
        /\ ret.value.suggestions # <<>>
        /\ ret.value.input = args.uuid_string.value

\* C17: validate_uuid called with ' not-a-uuid ' has returned the input
\* 'not-a-uuid'
C17_TrimmedInputReported ==
    /\ UnparsedValidated
    /\ args.uuid_string.value =
          <<" ", "n", "o", "t", "-", "a", "-", "u", "u", "i", "d", " ">>
    /\ ret.status = "ok"
    /\ ret.value.input = <<"n", "o", "t", "-", "a", "-", "u", "u", "i", "d">>

\* C17: what holds of the claim: all of it, with the trimmed string as input
C17_InvalidReportedWithTrimmedInput ==
    UnparsedValidated =>
        /\ ret.status = "ok"
        /\ ~ret.value.is_valid
        /\ ret.value.error = UUID(strip(args.uuid_string.value)).error
        /\ ret.value.suggestions # <<>>
        /\ ret.value.input = strip(args.uuid_string.value)

\* validate_uuid, called with the uuid of a generate_uuid result, has ended
GeneratedValidated ==
    pc = "done" /\ op = "validate_uuid" /\ "generated" \in DOMAIN args

\* C18: validate_uuid of a uuid that generate_uuid has returned, with or
\* without whitespace around it, returns is_valid = true and the uuid, the
\* version tag, the variant and the five components of the generated result
C18_ValidateAgreesWithGenerate ==
    GeneratedValidated =>
        /\ ret.status = "ok"
        /\ ret.value.is_valid
        /\ ret.value.uuid = args.generated.uuid
        /\ ret.value.version = args.generated.version
        /\ ret.value.variant = args.generated.metadata.variant
        /\ ret.value.components = args.generated.components

\* C18: a version 1 uuid with whitespace on both sides has been validated
C18_Witness ==
    /\ GeneratedValidated
    /\ args.generated.version = <<"V", "1">>
    /\ Len(args.uuid_string.value) = Len(args.generated.uuid) + 3
    /\ ret.status = "ok"
    /\ ret.value.uuid = args.generated.uuid

---------------------------------------------------------------------------
(* The claims about the text generator and its route, checked under
   SpecText *)

TextKinds == {"word", "sentence", "paragraph"}

\* the largest count of a kind
MaxTextCount(kind) ==
    CASE kind = "word" -> MaxWords
      [] kind = "sentence" -> MaxSentences
      [] kind = "paragraph" -> MaxParagraphs

TextCallEnded == pc = "done" /\ op = "generate_text"
TextRouteEnded == pc = "done" /\ op = "/api/v1/text/random"

\* the type and the count of the request of the text route
RequestedType == args_get(args, "type", "paragraph")
RequestedCount == int10(args_get(args, "count", <<"1">>))

\* C19: generate(kind, count) of a kind word, sentence or paragraph and a
\* valid count returns one string exactly when count = 1 and a list of count
\* items otherwise; another kind fails with the error of the type and draws
\* nothing; the route reports is_array = (count > 1), and for another kind
\* it fails with INVALID_TYPE and draws nothing
C19_SingleOrList ==
    /\ TextCallEnded /\ args.content_type \in TextKinds
          /\ args.count \in 1..MaxTextCount(args.content_type)
        => /\ ret.status = "ok"
           /\ ret.value.is_list <=> args.count # 1
           /\ Len(ret.value.items) = args.count
    /\ TextCallEnded /\ args.content_type \notin TextKinds
        => /\ ret.status = "error"
           /\ ret.message = "Invalid content_type"
           /\ draws = 0
    /\ TextRouteEnded /\ ret.body.success
        => /\ ret.body.data.metadata.is_array <=> RequestedCount.value > 1
           /\ Len(ret.body.data.result) = RequestedCount.value
    /\ TextRouteEnded /\ RequestedCount.ok /\ RequestedType \notin TextKinds
        => /\ ~ret.body.success
           /\ ret.body.error.code = "INVALID_TYPE"
           /\ draws = 0

\* C19: the route has returned two sentences with is_array = true
C19_Witness ==
    /\ TextRouteEnded
    /\ RequestedType = "sentence"
    /\ RequestedCount.value = 2
    /\ ret.body.success
    /\ ret.body.data.metadata.is_array
    /\ Len(ret.body.data.result) = 2

\* C19: generate('word', 1) has returned one string
C19_SingleString ==
    /\ TextCallEnded
    /\ args.content_type = "word"
    /\ args.count = 1
    /\ ret.status = "ok"
    /\ ~ret.value.is_list

---------------------------------------------------------------------------
(* The claims about the HTTP API, checked under SpecApi *)

\* a response has been sent
Responded == pc = "done" /\ ret.status = "response"

\* the uniform envelope: success and timestamp, with data and no error when
\* success is true, with an error of code and message and no data otherwise
Envelope(body) ==
    /\ {"success", "timestamp"} \subseteq DOMAIN body
    /\ IF body.success
       THEN "data" \in DOMAIN body /\ "error" \notin DOMAIN body
       ELSE /\ "error" \in DOMAIN body
            /\ "data" \notin DOMAIN body
            /\ {"code", "message"} \subseteq DOMAIN body.error

\* C20: every response of the API, of every route and for every outcome, an
\* unknown route and a missing documentation file included, is the uniform
\* envelope
C20_UniformEnvelope == Responded => Envelope(ret.body)

\* C20: the documentation file missing, /api/swagger.yaml has answered 404
\* with a body that has an error and neither success nor timestamp
C20_SwaggerMissing ==
    /\ Responded
    /\ op = "/api/swagger.yaml"
    /\ ret.code = 404
    /\ DOMAIN ret.body = {"error"}

\* C20: an unknown route has been answered 404 with a page that is no JSON
C20_UnknownRoute ==
    /\ Responded
    /\ op = "/api/v1/nonexistent"
    /\ ret.code = 404
    /\ ret.mimetype = "text/html"

\* the routes under /api/v1 and /api, the documentation file left out
ViewRoutes ==
    {"/api", "/api/v1/health", "/api/v1/hash/algorithms",
     "/api/v1/text/random", "/api/v1/password/generate",
     "/api/v1/apikey/generate", "/api/v1/hash/generate",
     "/api/v1/uuid/generate", "/api/v1/uuid/validate",
     "/api/v1/base64/encode", "/api/v1/base64/decode",
     "/api/v1/url/encode", "/api/v1/url/decode"}

\* C20: what holds of the claim: a view of a route under /api/v1 or of /api,
\* reached with the method of the route,
\* answers with the envelope, whatever the outcome
C20_EnvelopeOfViews ==
    Responded /\ op \in ViewRoutes /\ ret.code # 405
        => Envelope(ret.body)

---------------------------------------------------------------------------
(* C21: the failure taxonomy of the API *)

\* the response is a failure of the envelope with status 400 and one of codes
FailedWith(codes) ==
    /\ ret.code = 400
    /\ ret.mimetype = "application/json"
    /\ Envelope(ret.body)
    /\ ~ret.body.success
    /\ ret.body.error.code \in codes

\* a view has answered a request made with the method of its route
ViewAnswered == Responded /\ op \in ViewRoutes /\ ret.code # 405

\* the request names a value of an enumeration outside its allowed set, the
\* other arguments being acceptable: the type of the text route, the format
\* of the API key route, the algorithm of the hash route, the version of the
\* UUID route, the type of a URL route
EnumOutside ==
    \/ /\ op = "/api/v1/text/random"
       /\ "type" \in DOMAIN args
       /\ args.type \notin TextKinds
       /\ int10(args_get(args, "count", <<"1">>)).ok
    \/ /\ op = "/api/v1/apikey/generate"
       /\ "format" \in DOMAIN args
       /\ args.format \notin KeyFormats
       /\ int10(args_get(args, "length", <<"3", "2">>)).ok
    \/ /\ op = "/api/v1/hash/generate"
       /\ {"text", "algorithm"} \subseteq DOMAIN args
       /\ args.text # <<>>
       /\ strip(lower(args.algorithm)) \notin Range(SUPPORTED_ALGORITHMS)
    \/ /\ op = "/api/v1/uuid/generate"
       /\ "version" \in DOMAIN args
       /\ normalize_version(args.version) = <<>>
    \/ /\ op \in {"/api/v1/url/encode", "/api/v1/url/decode"}
       /\ args.kind = "object"
       /\ {FieldOf(IF op = "/api/v1/url/encode" THEN "encode" ELSE "decode"),
           "type"} \subseteq DOMAIN args.fields
       /\ strip(lower(args.fields.type)) \notin
            (IF op = "/api/v1/url/encode" THEN {standard, plus, component}
                                          ELSE {standard, plus, auto})
       /\ LET text == args.fields[FieldOf(IF op = "/api/v1/url/encode"
                                          THEN "encode" ELSE "decode")]
          IN  isinstance_str(text) /\ text.value # <<>>

\* the request has a numeric argument that is no number or is out of range,
\* its enumerations being acceptable: the count of the text route, the
\* length of the password route and of the API key route
NumericBad ==
    \/ /\ op = "/api/v1/text/random"
       /\ "count" \in DOMAIN args
       /\ args_get(args, "type", "paragraph") \in TextKinds
       /\ LET count == int10(args.count)
          IN  \/ ~count.ok
              \/ count.value \notin
                    1..MaxTextCount(args_get(args, "type", "paragraph"))
    \/ /\ op = "/api/v1/password/generate"
       /\ "length" \in DOMAIN args
       /\ IF "ensure_requirements" \in DOMAIN args
          THEN args.length \notin MinPasswordLength..MaxPasswordLength
          ELSE ~int10(args.length).ok
    \/ /\ op = "/api/v1/apikey/generate"
       /\ "length" \in DOMAIN args
       /\ args_get(args, "format", "hex") \in KeyFormats
       /\ LET length == int10(args.length)
          IN  ~length.ok \/ length.value < 1

\* the required field of the request is absent: the text of the hash route,
\* the uuid of the validate route, the text or encoded field of the JSON
\* object of a utility route
FieldAbsent ==
    \/ op = "/api/v1/hash/generate" /\ "text" \notin DOMAIN args
    \/ op = "/api/v1/uuid/validate" /\ "uuid" \notin DOMAIN args
    \/ /\ op \in {"/api/v1/base64/encode", "/api/v1/url/encode"}
       /\ args.kind = "object"
       /\ "text" \notin DOMAIN args.fields
    \/ /\ op \in {"/api/v1/base64/decode", "/api/v1/url/decode"}
       /\ args.kind = "object"
       /\ "encoded" \notin DOMAIN args.fields

\* the MISSING_* code of a route
MissingCode ==
    CASE op \in {"/api/v1/base64/decode", "/api/v1/url/decode"} ->
            "MISSING_ENCODED"
      [] op = "/api/v1/uuid/validate" -> "MISSING_UUID"
      [] OTHER -> "MISSING_TEXT"

\* C21: on every endpoint a value of an enumeration outside its allowed set
\* is answered with the code INVALID_TYPE or INVALID_FORMAT, a numeric
\* argument that is malformed or out of range with INVALID_PARAMETER, and an
\* absent required field with the MISSING_* code of the endpoint, each with
\* success false and status 400
C21_TaxonomyOnEveryEndpoint ==
    ViewAnswered =>
        /\ EnumOutside => FailedWith({"INVALID_TYPE", "INVALID_FORMAT"})
        /\ NumericBad => FailedWith({"INVALID_PARAMETER"})
        /\ FieldAbsent => FailedWith({MissingCode})

\* C21: an unsupported hash algorithm has been answered INVALID_PARAMETER
C21_AlgorithmInvalidParameter ==
    /\ ViewAnswered
    /\ op = "/api/v1/hash/generate"
    /\ EnumOutside
    /\ FailedWith({"INVALID_PARAMETER"})

\* C21: an unsupported URL encoding type has been answered ENCODING_ERROR
C21_UrlTypeEncodingError ==
    /\ ViewAnswered
    /\ op = "/api/v1/url/encode"
    /\ EnumOutside
    /\ FailedWith({"ENCODING_ERROR"})

\* C21: what holds of the claim: the type of the text route and the format of
\* the API key route are answered INVALID_TYPE and INVALID_FORMAT, the hash
\* algorithm and the UUID version INVALID_PARAMETER, the type of a URL route
\* ENCODING_ERROR or DECODING_ERROR; the numeric arguments and the absent
\* fields are answered as the taxonomy has them
C21_TaxonomyAsCoded ==
    ViewAnswered =>
        /\ EnumOutside =>
            FailedWith(CASE op = "/api/v1/text/random" -> {"INVALID_TYPE"}
                         [] op = "/api/v1/apikey/generate" -> {"INVALID_FORMAT"}
                         [] op = "/api/v1/url/encode" -> {"ENCODING_ERROR"}
                         [] op = "/api/v1/url/decode" -> {"DECODING_ERROR"}
                         [] OTHER -> {"INVALID_PARAMETER"})
        /\ NumericBad => FailedWith({"INVALID_PARAMETER"})
        /\ FieldAbsent => FailedWith({MissingCode})

---------------------------------------------------------------------------
(* C22: whether a call fails depends on its arguments only *)

\* a call that failed has been made a second time with the same arguments,
\* and the second call has ended
RetriedEnded == pc = "done" /\ "previous" \in DOMAIN args

\* the exception of a loop of generate_password that ran out of attempts
Exhaustion ==
    Outcome(Raise("RuntimeError",
        "Failed to generate password meeting requirements after 100 attempts"))

C22_RetrySucceeded ==
    /\ RetriedEnded
    /\ args.previous = Exhaustion
    /\ ret.status = "ok"

---------------------------------------------------------------------------
(* C23: no state outlives a call *)

\* C23: after any sequence of operations every generator instance holds
\* exactly the state it had at construction: between two calls nothing of
\* a call is left, and the generator of the TextGenerator is in the state
\* its constructor seeded
C23_InstancesAsConstructed ==
    pc = "idle" =>
        /\ _rng = Seeded
        /\ <<op, args, charset, attempt, batch, draws, ret>>
            = <<"none", <<>>, <<>>, 0, <<>>, 0, NoRet>>

\* C23: a call of generate of the text has returned, its words and lengths
\* drawn from _rng, and the instance is left with a generator that is no
\* longer in the state of its construction
C23_RngAdvanced ==
    /\ pc = "idle"
    /\ _rng = "advanced"

\* C23: what holds of the claim: the calls of the text generator that draw
\* are the only steps that change what an instance keeps
C23_OnlyTextDrawsOutlive ==
    [][_rng' # _rng => op' = "generate_text" /\ draws' > 0]_vars

---------------------------------------------------------------------------
(* C24: the base58 encoding of the drawn bytes *)

\* the number of leading elements of s that are x
Leading(s, x) ==
    Cardinality({i \in DOMAIN s : \A j \in 1..i : s[j] = x})

\* 58 * a + d for a number a in big-endian base-256 digits and a digit d
TimesBasePlus(a, d) ==
    LET n == Len(a)
        cin[i \in 0..n] ==
            IF i = n THEN d ELSE (a[i + 1] * Base + cin[i + 1]) \div 256
        body == [i \in 1..n |-> (a[i] * Base + cin[i]) % 256]
    IN  IF cin[0] = 0 THEN body ELSE <<cin[0]>> \o body

\* the number a string of base-58 digits stands for, most significant digit
\* first, in big-endian base-256 digits without leading zeros
Base58Value(str) ==
    LET acc[j \in 0..Len(str)] ==
            IF j = 0 THEN <<>>
            ELSE Apply(LAMBDA a : TimesBasePlus(a,
                            IndexOf(str[j], base58_alphabet) - 1),
                       acc[j - 1])
    IN  acc[Len(str)]

\* the bytes a key stands for: a zero byte for every leading '1', then the
\* bytes of the number the other characters stand for
Base58Bytes(key) ==
    LET ones == Leading(key, "1")
    IN  [i \in 1..ones |-> 0] \o Base58Value(SubSeq(key, ones + 1, Len(key)))

Base58Returned == pc = "done" /\ op = "generate_base58" /\ ret.status = "ok"

\* C24: for the bytes b that generate_base58 drew, the key is k times '1',
\* k the number of leading zero bytes of b, followed by the base-58 digits
\* of the big-endian value of b, most significant first and without a
\* leading zero digit, over the alphabet 123456789ABC...xyz; b is recovered
\* from the key, and an all-zero b gives len(b) times '1'
C24_Base58OfDrawnBytes ==
    Base58Returned =>
        LET b == args.random_bytes
            key == ret.value
            k == Leading(b, 0)
            body == SubSeq(key, k + 1, Len(key))
        IN  /\ Len(b) = args.length
            /\ Len(key) >= k
            /\ \A i \in 1..k : key[i] = "1"
            /\ \A i \in DOMAIN key : key[i] \in Range(base58_alphabet)
            /\ body # <<>> => body[1] # "1"
            /\ Base58Value(body) = SubSeq(b, k + 1, Len(b))
            /\ Base58Bytes(key) = b
            /\ k = Len(b) => key = [i \in 1..Len(b) |-> "1"]

\* C24: bytes with leading zero bytes before other bytes have been drawn and
\* encoded
C24_Witness ==
    /\ Base58Returned
    /\ Leading(args.random_bytes, 0) > 0
    /\ Leading(args.random_bytes, 0) < Len(args.random_bytes)
    /\ Len(ret.value) > Leading(args.random_bytes, 0)

---------------------------------------------------------------------------
(* C25: the characters URL encode leaves as they are *)

UrlEncodeReturned == pc = "done" /\ op = "url_encode" /\ ret.status = "ok"

\* the characters of text one by one, those of keep as they are and every
\* other one as the %XX of its UTF-8 bytes
PercentEncodedExcept(text, keep) ==
    Flatten([i \in DOMAIN text |->
        IF text[i] \in keep THEN <<text[i]>> ELSE quote(<<text[i]>>, {})])

\* C25: encode in standard mode leaves the unreserved characters and the
\* reserved characters of RFC 3986 unchanged and percent-encodes every other
\* character; in every mode a character is listed in safe_characters exactly
\* when the mode leaves it unencoded
C25_ReservedUntouchedAndListed ==
    UrlEncodeReturned =>
        /\ ret.value.encoding_type = standard =>
            ret.value.encoded
                = PercentEncodedExcept(args.text, always_safe \cup reserved)
        /\ \A i \in DOMAIN args.text :
            args.text[i] \in ret.value.safe_characters
                <=> url_encode(<<args.text[i]>>,
                               ret.value.encoding_type).value.encoded
                        = <<args.text[i]>>

\* C25: standard mode has returned a text with '+' or '&' in it, with the
\* character percent-encoded and listed as safe
C25_ReservedEncoded ==
    /\ UrlEncodeReturned
    /\ ret.value.encoding_type = standard
    /\ \E i \in DOMAIN args.text :
        /\ args.text[i] \in {43, 38}
        /\ args.text[i] \in ret.value.safe_characters
    /\ Count(43, ret.value.encoded) = 0
    /\ Count(38, ret.value.encoded) = 0

\* C25: what holds of the claim: standard mode leaves the unreserved
\* characters and '/' unchanged and percent-encodes every other character;
\* plus mode leaves the unreserved ones and turns the space into '+';
\* component mode leaves the unreserved ones, which are the ones its
\* safe_characters lists
C25_SafeSetAsCoded ==
    UrlEncodeReturned =>
        /\ ret.value.encoding_type = standard =>
            ret.value.encoded
                = PercentEncodedExcept(args.text, always_safe \cup {47})
        /\ ret.value.encoding_type = plus =>
            ret.value.encoded
                = replace_char(PercentEncodedExcept(args.text,
                                                    always_safe \cup {32}),
                               32, 43)
        /\ ret.value.encoding_type = component =>
            /\ ret.value.encoded = PercentEncodedExcept(args.text, always_safe)
            /\ ret.value.safe_characters = always_safe

---------------------------------------------------------------------------
(* C26: the auto mode of URL decode *)

UrlDecodeReturned == pc = "done" /\ op = "url_decode" /\ ret.status = "ok"

\* the text has a '+' and nowhere the three characters %20
PlusAndNoPercent20(text) ==
    /\ \E i \in DOMAIN text : text[i] = 43
    /\ ~\E i \in 1..(Len(text) - 2) :
            text[i] = 37 /\ text[i + 1] = 50 /\ text[i + 2] = 48

\* C26: decode with the type auto decodes '+' as a space exactly when the
\* input has a '+' and no literal %20, and as standard otherwise; it reports
\* the mode it applied as decoding_type; characters_decoded is the number of
\* '%' of the input, plus the number of '+' only when plus-decoding was
\* applied
C26_AutoDecoding ==
    UrlDecodeReturned =>
        LET text == args.encoded_text
            r == ret.value
        IN  /\ strip(lower(args.encoding_type)) = auto =>
                IF PlusAndNoPercent20(text)
                THEN /\ r.decoding_type = plus
                     /\ r.decoded = unquote(replace_char(text, 43, 32))
                ELSE /\ r.decoding_type = standard
                     /\ r.decoded = unquote(text)
            /\ r.decoding_type \in {standard, plus}
            /\ r.characters_decoded
                = Count(37, text)
                    + (IF r.decoding_type = plus THEN Count(43, text) ELSE 0)

\* C26: auto has decoded a text with a '+' and a literal %20 as standard,
\* the '+' left as it is and not counted
C26_Witness ==
    /\ UrlDecodeReturned
    /\ strip(lower(args.encoding_type)) = auto
    /\ Count(43, args.encoded_text) > 0
    /\ ~PlusAndNoPercent20(args.encoded_text)
    /\ ret.value.decoding_type = standard
    /\ Count(43, ret.value.decoded) > 0
    /\ ret.value.characters_decoded = Count(37, args.encoded_text)

---------------------------------------------------------------------------
(* C27: what URL validate takes for valid *)

UrlValidateEnded == pc = "done" /\ op = "url_validate"

\* C27: URL validate never raises; for a non-empty string is_valid is false
\* exactly when some '%' of the text is not followed by two hexadecimal
\* digits; an unencoded unsafe character (space, " < > { } | \ ^ ` [ ])
\* adds a warning and no issue, and does not change is_valid
C27_InvalidIffMalformedPercent ==
    UrlValidateEnded =>
        /\ ret.status = "ok"
        /\ isinstance_str(args.text) /\ args.text.value # <<>> =>
            /\ ~ret.value.is_valid <=> MalformedPercent(args.text.value)
            /\ ret.value.is_valid <=> ret.value.issues = <<>>
            /\ ret.value.warnings # <<>>
                <=> \E i \in DOMAIN args.text.value :
                        args.text.value[i] \in
                            {32, 34, 60, 62, 123, 125, 124, 92, 94, 96, 91, 93}

\* C27: a text with an unsafe character and a complete percent sequence has
\* been validated: it is valid, with a warning
C27_Witness ==
    /\ UrlValidateEnded
    /\ isinstance_str(args.text)
    /\ Count(37, args.text.value) > 0
    /\ ret.value.is_valid
    /\ ret.value.warnings # <<>>

---------------------------------------------------------------------------
(* C28: the lengths and the padding of Base64 encode *)

Base64EncodeReturned ==
    pc = "done" /\ op = "base64_encode" /\ ret.status = "ok"

\* the number of bytes of the UTF-8 encoding of a text
RECURSIVE Utf8Length(_)
Utf8Length(text) ==
    IF text = <<>> THEN 0
    ELSE (IF Head(text) < 128 THEN 1
          ELSE IF Head(text) < 2048 THEN 2
          ELSE IF Head(text) < 65536 THEN 3
          ELSE 4) + Utf8Length(Tail(text))

\* C28: for a non-empty text of n UTF-8 bytes Base64 encode returns
\* encoded_length = 4 * ceil(n / 3) and padding_chars = (3 - n mod 3) mod 3,
\* with the padding at the end of the encoded string only, and
\* is_valid_base64 true
C28_EncodedLengthAndPadding ==
    Base64EncodeReturned =>
        LET n == Utf8Length(args.text)
            r == ret.value
        IN  /\ n > 0
            /\ r.encoded_length = 4 * ((n + 2) \div 3)
            /\ Len(r.encoded) = r.encoded_length
            /\ r.padding_chars = (3 - (n % 3)) % 3
            /\ \A i \in DOMAIN r.encoded :
                r.encoded[i] = 61 <=> i > Len(r.encoded) - r.padding_chars
            /\ r.is_valid_base64

\* C28: texts of 4 and of 5 bytes in characters of more than one byte have
\* been encoded, with two and with one padding character
C28_Witness ==
    /\ Base64EncodeReturned
    /\ Len(args.text) < Utf8Length(args.text)
    /\ Utf8Length(args.text) \in {4, 5}
    /\ ret.value.padding_chars = 6 - Utf8Length(args.text)
    /\ ret.value.encoded_length = 8

---------------------------------------------------------------------------
(* C29: decode with the type auto inverts every encode mode *)

AutoRoundTripEnded == pc = "done" /\ op = "url_roundtrip_auto"

C29_Percent20Text ==
    /\ AutoRoundTripEnded
    /\ args.text = <<37, 50, 48>>
    /\ args.encoding_type = standard
    /\ ret.value.decoded = args.text

---------------------------------------------------------------------------
(* C30: Base64 validate and decode on the same text *)

Base64DecodeEnded == pc = "done" /\ op = "base64_decode"

\* decode has gone past its test for the empty text and its format check
PassedDecodeChecks ==
    \/ ret.status = "ok"
    \/ /\ ret.status = "error"
       /\ ret.message \notin {"Input text cannot be empty",
                              "Invalid Base64 format"}

\* validate of the text decode was called with
ValidOfDecoded == base64_validate(Str(args.encoded_text)).value.is_valid

Blank(text) == strip_text(text) = <<>>

\* C30: for every string s, validate(s) has is_valid true if and only if
\* decode(s) passes its test for the empty text and its format check, a
\* string that is empty after the trimming is rejected by both, and decode
\* returns no result with an empty decoded text
C30_ValidateAndDecodeAgree ==
    Base64DecodeEnded =>
        /\ ValidOfDecoded <=> PassedDecodeChecks
        /\ Blank(args.encoded_text) => ~ValidOfDecoded /\ ret.status = "error"
        /\ ret.status = "ok" => ret.value.decoded # <<>>

\* C30: decode has returned an empty decoded text for a text of whitespace
\* that validate rejects
C30_BlankDecoded ==
    /\ Base64DecodeEnded
    /\ args.encoded_text # <<>>
    /\ Blank(args.encoded_text)
    /\ ret.status = "ok"
    /\ ret.value.decoded = <<>>
    /\ ~ValidOfDecoded

\* C30: the two agree on every text that is not empty after the trimming
\* and on the empty text, and decode of such a text returns at least one
\* character
C30_AgreeOnNonBlank ==
    Base64DecodeEnded
    /\ (args.encoded_text = <<>> \/ ~Blank(args.encoded_text)) =>
        /\ ValidOfDecoded <=> PassedDecodeChecks
        /\ ret.status = "ok" => ret.value.decoded # <<>>

\* C30: a padded text has been decoded, and validate takes it
C30_PaddedAccepted ==
    /\ Base64DecodeEnded
    /\ args.encoded_text = <<81, 81, 61, 61>>
    /\ ret.status = "ok"
    /\ ValidOfDecoded

=============================================================================
